---- MODULE Spec2Model ----
(***************************************************************************)
(* The per-user session (conversation history, conversation state, booking *)
(* fields) of the SpeakFlow English bot, the booking state machine on top  *)
(* of it, the handlers that drive both, and the answer service with its    *)
(* response cache, its retries and the event loop its calls run on.        *)
(*                                                                         *)
(* A Python str is the sequence of its Unicode code points, so that        *)
(* strip(), lower(), startswith() and the validators' regular expressions  *)
(* are computed on the characters.  Each literal is written next to the    *)
(* text it encodes.  A Python dict is a function whose DOMAIN is the set   *)
(* of keys present.                                                        *)
(***************************************************************************)
EXTENDS Integers, Sequences, FiniteSets, TLC

VARIABLES
    user_data,  \* context.user_data of the one user: dict key -> value
    appended,   \* history messages appended since the last clear (observer)
    call,       \* the operation or event handled last, and what it returned
    cache,      \* AIService._cache: the entries in the dict's insertion order
    now,        \* time.time(), in seconds
    ai,         \* the handle_message / get_response call the event loop is running
    inbox,      \* updates received and not yet dispatched, oldest first
    sessions    \* context.user_data of every user: user id -> dict

vars == <<user_data, appended, call, cache, now, ai, inbox, sessions>>

\* the state of the answer service and of the event loop
aivars == <<cache, now, ai, inbox, sessions>>

----------------------------------------------------------------------------
(* Python values and built-ins *)

PyNone == [type |-> "NoneType"]

PyStr(s) == [type |-> "str", val |-> s]

\* bool(v) of a value that is None or a str
Truthy(v) == v # PyNone /\ v.val # <<>>

EmptyDict == [k \in {} |-> PyNone]

\* d[k] = v
DictSet(d, k, v) == [x \in DOMAIN d \cup {k} |-> IF x = k THEN v ELSE d[x]]

\* del d[k]
DictDel(d, k) == [x \in DOMAIN d \ {k} |-> d[x]]

\* d.get(k)
DictGet(d, k) == IF k \in DOMAIN d THEN d[k] ELSE PyNone

\* str.isspace() of one character, as str.strip() and the pattern \s use it
IsSpace(c) ==
    c \in (9..13) \cup (28..32) \cup {133, 160, 5760} \cup (8192..8202)
          \cup {8232, 8233, 8239, 8287, 12288}

\* s[i:j] with 1-based inclusive bounds; empty when i > j
Slice(s, i, j) == [k \in 1..(j - i + 1) |-> s[i + k - 1]]

\* str.lstrip(), str.rstrip(), str.strip()
RECURSIVE LStrip(_)
LStrip(s) == IF s # <<>> /\ IsSpace(Head(s)) THEN LStrip(Tail(s)) ELSE s

RECURSIVE RStrip(_)
RStrip(s) ==
    IF s # <<>> /\ IsSpace(s[Len(s)]) THEN RStrip(SubSeq(s, 1, Len(s) - 1)) ELSE s

Strip(s) == RStrip(LStrip(s))

\* str.lower() of one character: Latin, Latin-1 and Cyrillic capitals
LowerChar(c) ==
    IF c \in 65..90 THEN c + 32
    ELSE IF c \in (192..222) \ {215} THEN c + 32
    ELSE IF c \in 1024..1039 THEN c + 80
    ELSE IF c \in 1040..1071 THEN c + 32
    ELSE c

\* str.lower()
Lower(s) == [i \in 1..Len(s) |-> LowerChar(s[i])]

\* s.startswith(p)
StartsWith(s, p) == Len(s) >= Len(p) /\ Slice(s, 1, Len(p)) = p

\* re.sub(r"[\s\-\(\)]", "", s): s without whitespace, "-", "(" and ")"
RECURSIVE RemoveSeparators(_)
RemoveSeparators(s) ==
    IF s = <<>> THEN <<>>
    ELSE IF IsSpace(Head(s)) \/ Head(s) \in {45, 40, 41}
         THEN RemoveSeparators(Tail(s))
         ELSE <<Head(s)>> \o RemoveSeparators(Tail(s))

IsLatinLetter(c) == c \in (65..90) \cup (97..122)

\* \d : the ASCII digits and the other Unicode decimal digits of the inputs
IsDigit(c) == c \in (48..57) \cup (1632..1641)

----------------------------------------------------------------------------
(* utils/validators.py.  A validator returns <<is_valid, error_message>>. *)

EMAIL_MAX_LEN == 254

\* ^[a-zA-Z0-9._%+-]+@[a-zA-Z0-9.-]+\.[a-zA-Z]{2,}$
EmailLocalChar(c)  == IsLatinLetter(c) \/ c \in (48..57) \cup {46, 95, 37, 43, 45}
EmailDomainChar(c) == IsLatinLetter(c) \/ c \in (48..57) \cup {46, 45}
EmailPattern(s) ==
    \E at \in 2..Len(s) : \E dot \in (at + 2)..(Len(s) - 2) :
        /\ s[at] = 64
        /\ s[dot] = 46
        /\ \A k \in 1..(at - 1) : EmailLocalChar(s[k])
        /\ \A k \in (at + 1)..(dot - 1) : EmailDomainChar(s[k])
        /\ \A k \in (dot + 1)..Len(s) : IsLatinLetter(s[k])

validate_email(raw) ==
    LET email == Strip(raw)
    IN  IF email = <<>> THEN
            <<FALSE, (* "Email не может быть пустым" *) <<69, 109, 97, 105, 108, 32, 1085, 1077, 32, 1084, 1086, 1078, 1077, 1090, 32, 1073, 1099, 1090, 1100, 32, 1087, 1091, 1089, 1090, 1099, 1084>>>>
        ELSE IF Len(email) > EMAIL_MAX_LEN THEN
            <<FALSE, (* "Email слишком длинный" *) <<69, 109, 97, 105, 108, 32, 1089, 1083, 1080, 1096, 1082, 1086, 1084, 32, 1076, 1083, 1080, 1085, 1085, 1099, 1081>>>>
        ELSE IF ~EmailPattern(email) THEN
            <<FALSE, (* "Некорректный формат email. Пример: example@mail.com" *) <<1053, 1077, 1082, 1086, 1088, 1088, 1077, 1082, 1090, 1085, 1099, 1081, 32, 1092, 1086, 1088, 1084, 1072, 1090, 32, 101, 109, 97, 105, 108, 46, 32, 1055, 1088, 1080, 1084, 1077, 1088, 58, 32, 101, 120, 97, 109, 112, 108, 101, 64, 109, 97, 105, 108, 46, 99, 111, 109>>>>
        ELSE <<TRUE, <<>>>>

PHONE_MIN_LEN == 10
PHONE_MAX_LEN == 15
PHONE_RU_MIN_LEN == 11

\* ^\+?[\d]+$
PhonePattern(s) ==
    LET digits == IF s # <<>> /\ s[1] = 43 THEN Tail(s) ELSE s
    IN  digits # <<>> /\ \A k \in 1..Len(digits) : IsDigit(digits[k])

validate_phone(raw) ==
    LET phone   == Strip(raw)
        cleaned == RemoveSeparators(phone)
    IN  IF phone = <<>> THEN <<TRUE, <<>>>>
        ELSE IF ~PhonePattern(cleaned) THEN
            <<FALSE, (* "Телефон может содержать только цифры, +, -, ( )" *) <<1058, 1077, 1083, 1077, 1092, 1086, 1085, 32, 1084, 1086, 1078, 1077, 1090, 32, 1089, 1086, 1076, 1077, 1088, 1078, 1072, 1090, 1100, 32, 1090, 1086, 1083, 1100, 1082, 1086, 32, 1094, 1080, 1092, 1088, 1099, 44, 32, 43, 44, 32, 45, 44, 32, 40, 32, 41>>>>
        ELSE IF Len(cleaned) < PHONE_MIN_LEN THEN
            <<FALSE, (* "Телефон слишком короткий (минимум 10 цифр)" *) <<1058, 1077, 1083, 1077, 1092, 1086, 1085, 32, 1089, 1083, 1080, 1096, 1082, 1086, 1084, 32, 1082, 1086, 1088, 1086, 1090, 1082, 1080, 1081, 32, 40, 1084, 1080, 1085, 1080, 1084, 1091, 1084, 32, 49, 48, 32, 1094, 1080, 1092, 1088, 41>>>>
        ELSE IF Len(cleaned) > PHONE_MAX_LEN THEN
            <<FALSE, (* "Телефон слишком длинный (максимум 15 цифр)" *) <<1058, 1077, 1083, 1077, 1092, 1086, 1085, 32, 1089, 1083, 1080, 1096, 1082, 1086, 1084, 32, 1076, 1083, 1080, 1085, 1085, 1099, 1081, 32, 40, 1084, 1072, 1082, 1089, 1080, 1084, 1091, 1084, 32, 49, 53, 32, 1094, 1080, 1092, 1088, 41>>>>
        ELSE IF /\ StartsWith(cleaned, (* "+7" *) <<43, 55>>) \/ StartsWith(cleaned, (* "8" *) <<56>>)
                /\ Len(cleaned) < PHONE_RU_MIN_LEN THEN
            <<FALSE, (* "Неверный формат российского номера. Пример: +7 900 123 45 67" *) <<1053, 1077, 1074, 1077, 1088, 1085, 1099, 1081, 32, 1092, 1086, 1088, 1084, 1072, 1090, 32, 1088, 1086, 1089, 1089, 1080, 1081, 1089, 1082, 1086, 1075, 1086, 32, 1085, 1086, 1084, 1077, 1088, 1072, 46, 32, 1055, 1088, 1080, 1084, 1077, 1088, 58, 32, 43, 55, 32, 57, 48, 48, 32, 49, 50, 51, 32, 52, 53, 32, 54, 55>>>>
        ELSE <<TRUE, <<>>>>

NAME_MIN_LEN == 2
NAME_MAX_LEN == 100

\* ^[a-zA-Zа-яА-ЯёЁ\s\-]+$
NameChar(c) ==
    IsLatinLetter(c) \/ c \in (1072..1103) \cup (1040..1071) \cup {1105, 1025, 45}
                     \/ IsSpace(c)
NamePattern(s) == s # <<>> /\ \A k \in 1..Len(s) : NameChar(s[k])

validate_name(raw) ==
    LET name == Strip(raw)
    IN  IF name = <<>> THEN
            <<FALSE, (* "Имя не может быть пустым" *) <<1048, 1084, 1103, 32, 1085, 1077, 32, 1084, 1086, 1078, 1077, 1090, 32, 1073, 1099, 1090, 1100, 32, 1087, 1091, 1089, 1090, 1099, 1084>>>>
        ELSE IF Len(name) < NAME_MIN_LEN THEN
            <<FALSE, (* "Имя слишком короткое (минимум 2 символа)" *) <<1048, 1084, 1103, 32, 1089, 1083, 1080, 1096, 1082, 1086, 1084, 32, 1082, 1086, 1088, 1086, 1090, 1082, 1086, 1077, 32, 40, 1084, 1080, 1085, 1080, 1084, 1091, 1084, 32, 50, 32, 1089, 1080, 1084, 1074, 1086, 1083, 1072, 41>>>>
        ELSE IF Len(name) > NAME_MAX_LEN THEN
            <<FALSE, (* "Имя слишком длинное (максимум 100 символов)" *) <<1048, 1084, 1103, 32, 1089, 1083, 1080, 1096, 1082, 1086, 1084, 32, 1076, 1083, 1080, 1085, 1085, 1086, 1077, 32, 40, 1084, 1072, 1082, 1089, 1080, 1084, 1091, 1084, 32, 49, 48, 48, 32, 1089, 1080, 1084, 1074, 1086, 1083, 1086, 1074, 41>>>>
        ELSE IF ~NamePattern(name) THEN
            <<FALSE, (* "Имя может содержать только буквы, пробелы и дефисы" *) <<1048, 1084, 1103, 32, 1084, 1086, 1078, 1077, 1090, 32, 1089, 1086, 1076, 1077, 1088, 1078, 1072, 1090, 1100, 32, 1090, 1086, 1083, 1100, 1082, 1086, 32, 1073, 1091, 1082, 1074, 1099, 44, 32, 1087, 1088, 1086, 1073, 1077, 1083, 1099, 32, 1080, 32, 1076, 1077, 1092, 1080, 1089, 1099>>>>
        ELSE <<TRUE, <<>>>>

----------------------------------------------------------------------------
(* services/conversation_manager.py.  An operation takes the dict ud and   *)
(* returns [ud |-> the dict after it, ret |-> its return value].           *)

\* Config.MAX_HISTORY_MESSAGES (default 20, validated >= 1): max exchanged pairs
MAX_HISTORY_MESSAGES == 1

\* enum ConversationState: member name -> value
ConversationState ==
    [IDLE            |-> "idle",
     BOOKING_COURSE  |-> "booking_course",
     BOOKING_TIME    |-> "booking_time",
     BOOKING_NAME    |-> "booking_name",
     BOOKING_EMAIL   |-> "booking_email",
     BOOKING_PHONE   |-> "booking_phone",
     BOOKING_CONFIRM |-> "booking_confirm",
     AI_CHAT         |-> "ai_chat"]

get_history(ud) ==
    LET d == IF "history" \in DOMAIN ud THEN ud ELSE DictSet(ud, "history", <<>>)
    IN  [ud |-> d, ret |-> d["history"]]

\* add_message trimming with history[:max_messages]: keeps the oldest messages
add_message_keeps_oldest(ud, role, content) ==
    LET got          == get_history(ud)
        history      == Append(got.ret, [role |-> role, content |-> content])
        max_messages == MAX_HISTORY_MESSAGES * 2
        d            == DictSet(got.ud, "history", history)
    IN  [ud  |-> IF Len(history) > max_messages
                 THEN DictSet(d, "history", Slice(history, 1, max_messages))
                 ELSE d,
         ret |-> PyNone]

add_message(ud, role, content) ==
    LET got          == get_history(ud)
        history      == Append(got.ret, [role |-> role, content |-> content])
        max_messages == MAX_HISTORY_MESSAGES * 2
        d            == DictSet(got.ud, "history", history)
    IN  [ud  |-> IF Len(history) > max_messages
                 THEN DictSet(d, "history",
                              Slice(history, Len(history) - max_messages + 1, Len(history)))
                 ELSE d,
         ret |-> PyNone]

clear_history(ud) == [ud |-> DictSet(ud, "history", <<>>), ret |-> PyNone]

\* returns the member name
get_state(ud) ==
    LET state == IF "conversation_state" \in DOMAIN ud
                 THEN ud["conversation_state"] ELSE ConversationState.IDLE
    IN  IF \E m \in DOMAIN ConversationState : ConversationState[m] = state
        THEN CHOOSE m \in DOMAIN ConversationState : ConversationState[m] = state
        ELSE "IDLE"

\* set_state storing state.name instead of state.value
set_state_stores_name(ud, state) ==
    [ud |-> DictSet(ud, "conversation_state", state), ret |-> PyNone]

set_state(ud, state) ==
    [ud |-> DictSet(ud, "conversation_state", ConversationState[state]), ret |-> PyNone]

reset_state(ud) == set_state(ud, "IDLE")

is_in_booking_flow(ud) ==
    get_state(ud) \in {"BOOKING_COURSE", "BOOKING_TIME", "BOOKING_NAME",
                       "BOOKING_EMAIL", "BOOKING_PHONE", "BOOKING_CONFIRM"}

get_user_data(ud, key) == DictGet(ud, key)

set_user_data(ud, key, value) == [ud |-> DictSet(ud, key, value), ret |-> PyNone]

booking_keys ==
    <<"booking_course", "booking_time", "booking_name", "booking_email", "booking_phone">>

RECURSIVE DelKeys(_, _)
DelKeys(d, keys) ==
    IF keys = <<>> THEN d
    ELSE DelKeys(IF Head(keys) \in DOMAIN d THEN DictDel(d, Head(keys)) ELSE d, Tail(keys))

clear_booking_data(ud) == [ud |-> DelKeys(ud, booking_keys), ret |-> PyNone]

----------------------------------------------------------------------------
(* services/booking_manager.py *)

COURSE_NAMES ==
    (* "book_a1a2" *) <<98, 111, 111, 107, 95, 97, 49, 97, 50>> :> (* "General English A1-A2 (Beginner)" *) <<71, 101, 110, 101, 114, 97, 108, 32, 69, 110, 103, 108, 105, 115, 104, 32, 65, 49, 45, 65, 50, 32, 40, 66, 101, 103, 105, 110, 110, 101, 114, 41>>
    @@ (* "book_b1b2" *) <<98, 111, 111, 107, 95, 98, 49, 98, 50>> :> (* "General English B1-B2 (Intermediate)" *) <<71, 101, 110, 101, 114, 97, 108, 32, 69, 110, 103, 108, 105, 115, 104, 32, 66, 49, 45, 66, 50, 32, 40, 73, 110, 116, 101, 114, 109, 101, 100, 105, 97, 116, 101, 41>>
    @@ (* "book_speaking" *) <<98, 111, 111, 107, 95, 115, 112, 101, 97, 107, 105, 110, 103>> :> (* "Speaking Booster" *) <<83, 112, 101, 97, 107, 105, 110, 103, 32, 66, 111, 111, 115, 116, 101, 114>>
    @@ (* "book_business" *) <<98, 111, 111, 107, 95, 98, 117, 115, 105, 110, 101, 115, 115>> :> (* "Business English" *) <<66, 117, 115, 105, 110, 101, 115, 115, 32, 69, 110, 103, 108, 105, 115, 104>>
    @@ (* "book_exam" *) <<98, 111, 111, 107, 95, 101, 120, 97, 109>> :> (* "IELTS/TOEFL Preparation" *) <<73, 69, 76, 84, 83, 47, 84, 79, 69, 70, 76, 32, 80, 114, 101, 112, 97, 114, 97, 116, 105, 111, 110>>
    @@ (* "book_it" *) <<98, 111, 111, 107, 95, 105, 116>> :> (* "IT English" *) <<73, 84, 32, 69, 110, 103, 108, 105, 115, 104>>
    @@ (* "book_relocation" *) <<98, 111, 111, 107, 95, 114, 101, 108, 111, 99, 97, 116, 105, 111, 110>> :> (* "English for Relocation" *) <<69, 110, 103, 108, 105, 115, 104, 32, 102, 111, 114, 32, 82, 101, 108, 111, 99, 97, 116, 105, 111, 110>>

TIME_SLOTS ==
    (* "time_morning" *) <<116, 105, 109, 101, 95, 109, 111, 114, 110, 105, 110, 103>> :> (* "Утро (08:00-09:00 МСК)" *) <<1059, 1090, 1088, 1086, 32, 40, 48, 56, 58, 48, 48, 45, 48, 57, 58, 48, 48, 32, 1052, 1057, 1050, 41>>
    @@ (* "time_afternoon" *) <<116, 105, 109, 101, 95, 97, 102, 116, 101, 114, 110, 111, 111, 110>> :> (* "День (13:00-14:00 МСК)" *) <<1044, 1077, 1085, 1100, 32, 40, 49, 51, 58, 48, 48, 45, 49, 52, 58, 48, 48, 32, 1052, 1057, 1050, 41>>
    @@ (* "time_evening" *) <<116, 105, 109, 101, 95, 101, 118, 101, 110, 105, 110, 103>> :> (* "Вечер (19:00-20:00 МСК)" *) <<1042, 1077, 1095, 1077, 1088, 32, 40, 49, 57, 58, 48, 48, 45, 50, 48, 58, 48, 48, 32, 1052, 1057, 1050, 41>>
    @@ (* "time_late" *) <<116, 105, 109, 101, 95, 108, 97, 116, 101>> :> (* "Поздний вечер (20:30-21:30 МСК)" *) <<1055, 1086, 1079, 1076, 1085, 1080, 1081, 32, 1074, 1077, 1095, 1077, 1088, 32, 40, 50, 48, 58, 51, 48, 45, 50, 49, 58, 51, 48, 32, 1052, 1057, 1050, 41>>

\* start_booking without the call of clear_booking_data
start_booking_keeps_fields(ud) ==
    [ud |-> set_state(ud, "BOOKING_COURSE").ud, ret |-> PyNone]

start_booking(ud) ==
    [ud  |-> clear_booking_data(set_state(ud, "BOOKING_COURSE").ud).ud,
     ret |-> PyNone]

\* cancel_booking without the call of reset_state
cancel_booking_keeps_state(ud) ==
    [ud |-> clear_booking_data(ud).ud, ret |-> PyNone]

cancel_booking(ud) ==
    [ud  |-> reset_state(clear_booking_data(ud).ud).ud,
     ret |-> PyNone]

\* set_course storing course_id instead of COURSE_NAMES[course_id]
set_course_stores_id(ud, course_id) ==
    IF course_id \in DOMAIN COURSE_NAMES THEN
        LET d == set_user_data(ud, "booking_course", PyStr(course_id)).ud
        IN  [ud |-> set_state(d, "BOOKING_TIME").ud, ret |-> TRUE]
    ELSE [ud |-> ud, ret |-> FALSE]

set_course(ud, course_id) ==
    IF course_id \in DOMAIN COURSE_NAMES THEN
        LET course_name == COURSE_NAMES[course_id]
            d == set_user_data(ud, "booking_course", PyStr(course_name)).ud
        IN  [ud |-> set_state(d, "BOOKING_TIME").ud, ret |-> TRUE]
    ELSE [ud |-> ud, ret |-> FALSE]

\* set_time storing the slot but leaving the state where it was
set_time_keeps_state(ud, time_id) ==
    IF time_id \in DOMAIN TIME_SLOTS THEN
        LET time_slot == TIME_SLOTS[time_id]
        IN  [ud |-> set_user_data(ud, "booking_time", PyStr(time_slot)).ud, ret |-> TRUE]
    ELSE [ud |-> ud, ret |-> FALSE]

set_time(ud, time_id) ==
    IF time_id \in DOMAIN TIME_SLOTS THEN
        LET time_slot == TIME_SLOTS[time_id]
            d == set_user_data(ud, "booking_time", PyStr(time_slot)).ud
        IN  [ud |-> set_state(d, "BOOKING_NAME").ud, ret |-> TRUE]
    ELSE [ud |-> ud, ret |-> FALSE]

set_name(ud, name) ==
    LET v == validate_name(name)
    IN  IF v[1] THEN
            LET d == set_user_data(ud, "booking_name", PyStr(name)).ud
            IN  [ud |-> set_state(d, "BOOKING_EMAIL").ud, ret |-> <<TRUE, <<>>>>]
        ELSE [ud |-> ud, ret |-> <<FALSE, v[2]>>]

\* set_email storing the email before it looks at the validator's answer
set_email_stores_first(ud, email) ==
    LET v == validate_email(email)
        d == set_user_data(ud, "booking_email", PyStr(email)).ud
    IN  IF v[1] THEN
            [ud |-> set_state(d, "BOOKING_PHONE").ud, ret |-> <<TRUE, <<>>>>]
        ELSE [ud |-> d, ret |-> <<FALSE, v[2]>>]

set_email(ud, email) ==
    LET v == validate_email(email)
    IN  IF v[1] THEN
            LET d == set_user_data(ud, "booking_email", PyStr(email)).ud
            IN  [ud |-> set_state(d, "BOOKING_PHONE").ud, ret |-> <<TRUE, <<>>>>]
        ELSE [ud |-> ud, ret |-> <<FALSE, v[2]>>]

\* the list the lowered phone is looked up in
SKIP_WORDS == {(* "пропустить" *) <<1087, 1088, 1086, 1087, 1091, 1089, 1090, 1080, 1090, 1100>>, (* "skip" *) <<115, 107, 105, 112>>, (* "-" *) <<45>>}

\* set_phone comparing phone, not phone.lower(), with the skip words
set_phone_case_sensitive(ud, phone) ==
    IF phone = <<>> \/ phone \in SKIP_WORDS THEN
        LET d == set_user_data(ud, "booking_phone", PyNone).ud
        IN  [ud |-> set_state(d, "BOOKING_CONFIRM").ud, ret |-> <<TRUE, <<>>>>]
    ELSE
        LET v == validate_phone(phone)
        IN  IF v[1] THEN
                LET d == set_user_data(ud, "booking_phone", PyStr(phone)).ud
                IN  [ud |-> set_state(d, "BOOKING_CONFIRM").ud, ret |-> <<TRUE, <<>>>>]
            ELSE [ud |-> ud, ret |-> <<FALSE, v[2]>>]

set_phone(ud, phone) ==
    IF phone = <<>> \/ Lower(phone) \in SKIP_WORDS THEN
        LET d == set_user_data(ud, "booking_phone", PyNone).ud
        IN  [ud |-> set_state(d, "BOOKING_CONFIRM").ud, ret |-> <<TRUE, <<>>>>]
    ELSE
        LET v == validate_phone(phone)
        IN  IF v[1] THEN
                LET d == set_user_data(ud, "booking_phone", PyStr(phone)).ud
                IN  [ud |-> set_state(d, "BOOKING_CONFIRM").ud, ret |-> <<TRUE, <<>>>>]
            ELSE [ud |-> ud, ret |-> <<FALSE, v[2]>>]

\* get_booking_summary with the phone in the list of required fields
get_booking_summary_requires_phone(ud) ==
    LET booking_data ==
            [course |-> get_user_data(ud, "booking_course"),
             time   |-> get_user_data(ud, "booking_time"),
             name   |-> get_user_data(ud, "booking_name"),
             email  |-> get_user_data(ud, "booking_email"),
             phone  |-> get_user_data(ud, "booking_phone")]
    IN  [ud  |-> ud,
         ret |-> IF ~(/\ Truthy(booking_data.course)
                      /\ Truthy(booking_data.time)
                      /\ Truthy(booking_data.name)
                      /\ Truthy(booking_data.email)
                      /\ Truthy(booking_data.phone))
                 THEN PyNone
                 ELSE booking_data]

\* ret is the dict of the five fields, or None when a required one is falsy
get_booking_summary(ud) ==
    LET booking_data ==
            [course |-> get_user_data(ud, "booking_course"),
             time   |-> get_user_data(ud, "booking_time"),
             name   |-> get_user_data(ud, "booking_name"),
             email  |-> get_user_data(ud, "booking_email"),
             phone  |-> get_user_data(ud, "booking_phone")]
    IN  [ud  |-> ud,
         ret |-> IF ~(/\ Truthy(booking_data.course)
                      /\ Truthy(booking_data.time)
                      /\ Truthy(booking_data.name)
                      /\ Truthy(booking_data.email))
                 THEN PyNone
                 ELSE booking_data]

\* confirm_booking clearing and resetting before it looks at the summary
confirm_booking_clears_first(ud) ==
    LET booking_data == get_booking_summary(ud).ret
        d == reset_state(clear_booking_data(ud).ud).ud
    IN  IF booking_data # PyNone THEN [ud |-> d, ret |-> TRUE]
        ELSE [ud |-> d, ret |-> FALSE]

confirm_booking(ud) ==
    LET booking_data == get_booking_summary(ud).ret
    IN  IF booking_data # PyNone THEN
            [ud |-> reset_state(clear_booking_data(ud).ud).ud, ret |-> TRUE]
        ELSE [ud |-> ud, ret |-> FALSE]


----------------------------------------------------------------------------
(* utils/formatters.py: split_long_message.                                *)

\* the default of max_length
MAX_MESSAGE_LENGTH == 4096

\* the k-th smallest element of a set of integers
Nth(S, k) == CHOOSE x \in S : Cardinality({y \in S : y < x}) = k - 1

\* the first position of the run of line feeds that holds position i
RunStart(s, i) ==
    CHOOSE j \in 1..i :
        /\ \A k \in j..i : s[k] = 10
        /\ j = 1 \/ s[j - 1] # 10

\* where str.split("\n\n") finds its separators: left to right, without
\* overlap, so at every second position of a run of line feeds
SeparatorStarts(s) ==
    {i \in 1..(Len(s) - 1) :
        /\ s[i] = 10
        /\ s[i + 1] = 10
        /\ (i - RunStart(s, i)) % 2 = 0}

\* text.split("\n\n")
SplitParagraphs(text) ==
    LET starts == SeparatorStarts(text)
        n == Cardinality(starts)
    IN  [k \in 1..(n + 1) |->
            SubSeq(text,
                   IF k = 1 THEN 1 ELSE Nth(starts, k - 1) + 2,
                   IF k = n + 1 THEN Len(text) ELSE Nth(starts, k) - 1)]

\* the loop over the paragraphs from the k-th on, then the last append
RECURSIVE SplitLoop(_, _, _, _, _)
SplitLoop(paragraphs, k, parts, current_part, max_length) ==
    IF k > Len(paragraphs) THEN
        IF current_part # <<>> THEN Append(parts, Strip(current_part)) ELSE parts
    ELSE
        LET paragraph == paragraphs[k]
        IN  IF Len(current_part) + Len(paragraph) + 2 <= max_length THEN
                SplitLoop(paragraphs, k + 1, parts,
                          current_part \o paragraph \o <<10, 10>>, max_length)
            ELSE
                SplitLoop(paragraphs, k + 1,
                          IF current_part # <<>>
                          THEN Append(parts, Strip(current_part)) ELSE parts,
                          paragraph \o <<10, 10>>, max_length)

\* returns the list of parts
split_long_message(text, max_length) ==
    IF Len(text) <= max_length THEN <<text>>
    ELSE SplitLoop(SplitParagraphs(text), 1, <<>>, <<>>, max_length)
----------------------------------------------------------------------------
(* Inputs.  The texts a user types and the identifiers a button carries.   *)

Repeat(c, n) == [i \in 1..n |-> c]

NameInputs ==
    { (* "Anna" *) <<65, 110, 110, 97>>, (* "  Анна-Мария " *) <<32, 32, 1040, 1085, 1085, 1072, 45, 1052, 1072, 1088, 1080, 1103, 32>>,                              \* accepted
      (* "" *) <<>>, (* "A" *) <<65>>, (* "Anna1" *) <<65, 110, 110, 97, 49>>, Repeat(97, NAME_MAX_LEN + 1) }      \* rejected

EmailInputs ==
    { (* "anna@example.com" *) <<97, 110, 110, 97, 64, 101, 120, 97, 109, 112, 108, 101, 46, 99, 111, 109>>,                                    \* accepted
      (* "" *) <<>>, (* "not-an-email" *) <<110, 111, 116, 45, 97, 110, 45, 101, 109, 97, 105, 108>>, (* "a@b.c" *) <<97, 64, 98, 46, 99>>,
      Repeat(97, EMAIL_MAX_LEN - 4) \o (* "@b.co" *) <<64, 98, 46, 99, 111>> }             \* rejected

SkipInputs ==
    { (* "пропустить" *) <<1087, 1088, 1086, 1087, 1091, 1089, 1090, 1080, 1090, 1100>>, (* "ПРОПУСТИТЬ" *) <<1055, 1056, 1054, 1055, 1059, 1057, 1058, 1048, 1058, 1068>>, (* "Пропустить" *) <<1055, 1088, 1086, 1087, 1091, 1089, 1090, 1080, 1090, 1100>>, (* "skip" *) <<115, 107, 105, 112>>, (* "SKIP" *) <<83, 75, 73, 80>>, (* "sKiP" *) <<115, 75, 105, 80>>, (* "-" *) <<45>> }

PhoneInputs ==
    SkipInputs \cup
    { (* "" *) <<>>, (* "+79001234567" *) <<43, 55, 57, 48, 48, 49, 50, 51, 52, 53, 54, 55>>, (* "   " *) <<32, 32, 32>>,                           \* accepted
      (* "12345" *) <<49, 50, 51, 52, 53>>, (* "abc" *) <<97, 98, 99>>, (* "8900123456" *) <<56, 57, 48, 48, 49, 50, 51, 52, 53, 54>>, (* "1234567890123456" *) <<49, 50, 51, 52, 53, 54, 55, 56, 57, 48, 49, 50, 51, 52, 53, 54>>,
      (* " skip " *) <<32, 115, 107, 105, 112, 32>> }                                             \* rejected

CourseInputs ==
    { (* "book_it" *) <<98, 111, 111, 107, 95, 105, 116>>, (* "book_a1a2" *) <<98, 111, 111, 107, 95, 97, 49, 97, 50>>,                               \* in COURSE_NAMES
      (* "book_c1" *) <<98, 111, 111, 107, 95, 99, 49>>, (* "time_morning" *) <<116, 105, 109, 101, 95, 109, 111, 114, 110, 105, 110, 103>> }                           \* not in it

TimeInputs ==
    { (* "time_morning" *) <<116, 105, 109, 101, 95, 109, 111, 114, 110, 105, 110, 103>>, (* "time_evening" *) <<116, 105, 109, 101, 95, 101, 118, 101, 110, 105, 110, 103>>,                       \* in TIME_SLOTS
      (* "time_night" *) <<116, 105, 109, 101, 95, 110, 105, 103, 104, 116>>, (* "book_it" *) <<98, 111, 111, 107, 95, 105, 116>> }                             \* not in it

Roles == {"user", "assistant", "system"}

ChatTexts == { (* "Hi" *) <<72, 105>>, (* "Сколько стоит курс?" *) <<1057, 1082, 1086, 1083, 1100, 1082, 1086, 32, 1089, 1090, 1086, 1080, 1090, 32, 1082, 1091, 1088, 1089, 63>> }

\* the appends one run makes between two clears
MaxAppends == 2 * MAX_HISTORY_MESSAGES + 2

----------------------------------------------------------------------------
(* The state after construction: an empty user_data. *)

NoCall == [op |-> "none", arg |-> <<>>, ok |-> TRUE, msg |-> <<>>, flow |-> {}]

\* the users that write to the bot (update.effective_user.id)
Users == {1, 2}

\* no handler is running on the event loop (served and waited are observers:
\* the updates dispatched so far, and whether the update being handled was
\* received while another one was being handled)
AiIdle ==
    [pc |-> "idle", user |-> 0, messages |-> <<>>, api_messages |-> <<>>,
     cache_key |-> PyNone,
     attempt |-> 0, response |-> <<>>, trace |-> <<>>, served |-> 0,
     waited |-> FALSE]

\* an AIService just constructed (empty _cache), no update received yet
InitService ==
    /\ cache = <<>>
    /\ now = 0
    /\ ai = AiIdle
    /\ inbox = <<>>
    /\ sessions = [u \in Users |-> EmptyDict]

Init ==
    /\ user_data = EmptyDict
    /\ appended = <<>>
    /\ call = NoCall
    /\ InitService

\* context.user_data.get("history", [])
History == IF "history" \in DOMAIN user_data THEN user_data["history"] ELSE <<>>

----------------------------------------------------------------------------
(* The session store called directly: any sequence of history operations.  *)

CallAddMessage(role, content) ==
    /\ Len(appended) < MaxAppends
    /\ user_data' = add_message(user_data, role, content).ud
    /\ appended' = Append(appended, [role |-> role, content |-> content])
    /\ call' = [op |-> "add_message", arg |-> content, ok |-> TRUE, msg |-> <<>>]
    /\ UNCHANGED aivars

CallClearHistory ==
    /\ user_data' = clear_history(user_data).ud
    /\ appended' = <<>>
    /\ call' = [op |-> "clear_history", arg |-> <<>>, ok |-> TRUE, msg |-> <<>>]
    /\ UNCHANGED aivars

CallGetHistory ==
    /\ user_data' = get_history(user_data).ud
    /\ call' = [op |-> "get_history", arg |-> <<>>, ok |-> TRUE, msg |-> <<>>]
    /\ UNCHANGED aivars
    /\ UNCHANGED appended

NextHistory ==
    \/ \E role \in Roles : \E content \in ChatTexts : CallAddMessage(role, content)
    \/ CallClearHistory
    \/ CallGetHistory

SpecHistory == Init /\ [][NextHistory]_vars

----------------------------------------------------------------------------
(* The booking manager called directly: its operations in any order, from  *)
(* any conversation state, with accepted and rejected arguments.           *)

\* one operation: r is what it returned, ok and msg its outcome
Invoke(op, arg, r, ok, msg) ==
    /\ user_data' = r.ud
    /\ call' = [op |-> op, arg |-> arg, ok |-> ok, msg |-> msg]
    /\ UNCHANGED appended
    /\ UNCHANGED aivars

CallStartBooking ==
    Invoke("start_booking", <<>>, start_booking(user_data), TRUE, <<>>)

CallCancelBooking ==
    Invoke("cancel_booking", <<>>, cancel_booking(user_data), TRUE, <<>>)

CallSetCourse(course_id) ==
    LET r == set_course(user_data, course_id)
    IN  Invoke("set_course", course_id, r, r.ret, <<>>)

CallSetTime(time_id) ==
    LET r == set_time(user_data, time_id)
    IN  Invoke("set_time", time_id, r, r.ret, <<>>)

CallSetName(name) ==
    LET r == set_name(user_data, name)
    IN  Invoke("set_name", name, r, r.ret[1], r.ret[2])

CallSetEmail(email) ==
    LET r == set_email(user_data, email)
    IN  Invoke("set_email", email, r, r.ret[1], r.ret[2])

CallSetPhone(phone) ==
    LET r == set_phone(user_data, phone)
    IN  Invoke("set_phone", phone, r, r.ret[1], r.ret[2])

CallGetBookingSummary ==
    LET r == get_booking_summary(user_data)
    IN  Invoke("get_booking_summary", <<>>, r, r.ret # PyNone, <<>>)

CallConfirmBooking ==
    LET r == confirm_booking(user_data)
    IN  Invoke("confirm_booking", <<>>, r, r.ret, <<>>)

CallSetState(state) ==
    Invoke("set_state", <<>>, set_state(user_data, state), TRUE, <<>>)

NextBooking ==
    \/ CallStartBooking
    \/ CallCancelBooking
    \/ \E course_id \in CourseInputs : CallSetCourse(course_id)
    \/ \E time_id \in TimeInputs : CallSetTime(time_id)
    \/ \E name \in NameInputs : CallSetName(name)
    \/ \E email \in EmailInputs : CallSetEmail(email)
    \/ \E phone \in PhoneInputs : CallSetPhone(phone)
    \/ CallGetBookingSummary
    \/ CallConfirmBooking
    \/ \E state \in DOMAIN ConversationState : CallSetState(state)

SpecBooking == Init /\ [][NextBooking]_vars

----------------------------------------------------------------------------
(* The bot: one action per inbound event, the whole handler.               *)

\* Config.ENABLE_BOOKING, Config.ENABLE_AI_CHAT (both default "true")
ENABLE_BOOKING == TRUE
ENABLE_AI_CHAT == TRUE

\* callback_data of the buttons that only render a text or a keyboard
DisplayButtons ==
    { (* "back_to_menu" *) <<98, 97, 99, 107, 95, 116, 111, 95, 109, 101, 110, 117>>, (* "menu_courses" *) <<109, 101, 110, 117, 95, 99, 111, 117, 114, 115, 101, 115>>, (* "menu_prices" *) <<109, 101, 110, 117, 95, 112, 114, 105, 99, 101, 115>>, (* "menu_teachers" *) <<109, 101, 110, 117, 95, 116, 101, 97, 99, 104, 101, 114, 115>>,
      (* "menu_schedule" *) <<109, 101, 110, 117, 95, 115, 99, 104, 101, 100, 117, 108, 101>>, (* "menu_reviews" *) <<109, 101, 110, 117, 95, 114, 101, 118, 105, 101, 119, 115>>, (* "menu_faq" *) <<109, 101, 110, 117, 95, 102, 97, 113>>, (* "menu_contact" *) <<109, 101, 110, 117, 95, 99, 111, 110, 116, 97, 99, 116>>,
      (* "courses_general" *) <<99, 111, 117, 114, 115, 101, 115, 95, 103, 101, 110, 101, 114, 97, 108>> }

\* callback_data the user can press: a button of any keyboard sent so far
ButtonInputs ==
    { (* "menu_prices" *) <<109, 101, 110, 117, 95, 112, 114, 105, 99, 101, 115>>, (* "course_it" *) <<99, 111, 117, 114, 115, 101, 95, 105, 116>>, (* "confirm_yes" *) <<99, 111, 110, 102, 105, 114, 109, 95, 121, 101, 115>>, (* "menu_chat" *) <<109, 101, 110, 117, 95, 99, 104, 97, 116>>, (* "menu_book" *) <<109, 101, 110, 117, 95, 98, 111, 111, 107>>,
      (* "book_it" *) <<98, 111, 111, 107, 95, 105, 116>>, (* "book_a1a2" *) <<98, 111, 111, 107, 95, 97, 49, 97, 50>>, (* "book_c1" *) <<98, 111, 111, 107, 95, 99, 49>>,
      (* "time_morning" *) <<116, 105, 109, 101, 95, 109, 111, 114, 110, 105, 110, 103>>, (* "time_night" *) <<116, 105, 109, 101, 95, 110, 105, 103, 104, 116>>, (* "booking_cancel" *) <<98, 111, 111, 107, 105, 110, 103, 95, 99, 97, 110, 99, 101, 108>> }

\* texts typed while a booking is in progress
BookingTexts ==
    { (* "Anna" *) <<65, 110, 110, 97>>, (* "A" *) <<65>>, (* "anna@example.com" *) <<97, 110, 110, 97, 64, 101, 120, 97, 109, 112, 108, 101, 46, 99, 111, 109>>, (* "+79001234567" *) <<43, 55, 57, 48, 48, 49, 50, 51, 52, 53, 54, 55>>, (* "skip" *) <<115, 107, 105, 112>> }

\* AIService._get_fallback_response()
get_fallback_response ==
    (* "😔 Извините, AI-помощник временно недоступен. Пожалуйста, попробуйте через несколько минут или свяжитесь с нашей поддержкой:\n\n📧 support@speakflow-english.com\n📱 +7 495 123 45 67\n\nМы работаем Пн-Пт с 10:00 до 19:00 МСК." *) <<128532, 32, 1048, 1079, 1074, 1080, 1085, 1080, 1090, 1077, 44, 32, 65, 73, 45, 1087, 1086, 1084, 1086, 1097, 1085, 1080, 1082, 32, 1074, 1088, 1077, 1084, 1077, 1085, 1085, 1086, 32, 1085, 1077, 1076, 1086, 1089, 1090, 1091, 1087, 1077, 1085, 46, 32, 1055, 1086, 1078, 1072, 1083, 1091, 1081, 1089, 1090, 1072, 44, 32, 1087, 1086, 1087, 1088, 1086, 1073, 1091, 1081, 1090, 1077, 32, 1095, 1077, 1088, 1077, 1079, 32, 1085, 1077, 1089, 1082, 1086, 1083, 1100, 1082, 1086, 32, 1084, 1080, 1085, 1091, 1090, 32, 1080, 1083, 1080, 32, 1089, 1074, 1103, 1078, 1080, 1090, 1077, 1089, 1100, 32, 1089, 32, 1085, 1072, 1096, 1077, 1081, 32, 1087, 1086, 1076, 1076, 1077, 1088, 1078, 1082, 1086, 1081, 58, 10, 10, 128231, 32, 115, 117, 112, 112, 111, 114, 116, 64, 115, 112, 101, 97, 107, 102, 108, 111, 119, 45, 101, 110, 103, 108, 105, 115, 104, 46, 99, 111, 109, 10, 128241, 32, 43, 55, 32, 52, 57, 53, 32, 49, 50, 51, 32, 52, 53, 32, 54, 55, 10, 10, 1052, 1099, 32, 1088, 1072, 1073, 1086, 1090, 1072, 1077, 1084, 32, 1055, 1085, 45, 1055, 1090, 32, 1089, 32, 49, 48, 58, 48, 48, 32, 1076, 1086, 32, 49, 57, 58, 48, 48, 32, 1052, 1057, 1050, 46>>

\* what AIService.get_response() can return: the provider's text or the fallback
AiResponses == { (* "Пробный урок бесплатный." *) <<1055, 1088, 1086, 1073, 1085, 1099, 1081, 32, 1091, 1088, 1086, 1082, 32, 1073, 1077, 1089, 1087, 1083, 1072, 1090, 1085, 1099, 1081, 46>>, get_fallback_response }

\* observer of the booking form: "started" from a start_booking on, the keys
\* of the fields stored since then, "confirmed" once confirm_booking has
\* succeeded; empty after /start, /reset, the chat menu button and a cancel.
\* It is what the form is after the handler op (argument arg, outcome ok,
\* texts sent) has run on the session user_data.
FlowAfter(op, arg, ok, sent) ==
    LET flow   == IF "confirmed" \in call.flow THEN {} ELSE call.flow
        state  == get_state(user_data)
        button == op = "button_callback"
        stored(key) == IF "started" \in flow THEN flow \cup {key} ELSE flow
    IN  IF op = "book_command" \/ (button /\ arg = (* "menu_book" *) <<109, 101, 110, 117, 95, 98, 111, 111, 107>>)
        THEN {"started"}
        ELSE IF \/ op \in {"start_command", "reset_command"}
                \/ button /\ arg \in {(* "menu_chat" *) <<109, 101, 110, 117, 95, 99, 104, 97, 116>>, (* "booking_cancel" *) <<98, 111, 111, 107, 105, 110, 103, 95, 99, 97, 110, 99, 101, 108>>}
        THEN {}
        ELSE IF button /\ StartsWith(arg, (* "book_" *) <<98, 111, 111, 107, 95>>) /\ sent # <<>>
        THEN stored("booking_course")
        ELSE IF button /\ StartsWith(arg, (* "time_" *) <<116, 105, 109, 101, 95>>) /\ sent # <<>>
        THEN stored("booking_time")
        ELSE IF op = "handle_booking_input" /\ ok /\ state = "BOOKING_NAME"
        THEN stored("booking_name")
        ELSE IF op = "handle_booking_input" /\ ok /\ state = "BOOKING_EMAIL"
        THEN stored("booking_email")
        ELSE IF /\ op = "handle_booking_input" /\ ok /\ state = "BOOKING_PHONE"
                /\ get_booking_summary(set_phone(user_data, arg).ud).ret # PyNone
        THEN flow \cup {"confirmed"}
        ELSE flow

\* the handler has returned: sent holds the texts it sent to the user
\* (reply_text, edit_message_text), in order
Event(op, arg, ok, msg, sent) ==
    /\ call' = [op |-> op, arg |-> arg, ok |-> ok, msg |-> msg, sent |-> sent,
                flow |-> FlowAfter(op, arg, ok, sent)]
    /\ UNCHANGED aivars

\* format_welcome_message()
format_welcome_message ==
    (* "👋 Добро пожаловать в SpeakFlow English!\n\nЯ AI-помощник онлайн-школы английского языка. Помогу вам узнать о наших курсах, преподавателях, ценах и записаться на пробное занятие.\n\nВыберите интересующий раздел в меню ниже или задайте вопрос в чате 👇" *) <<128075, 32, 1044, 1086, 1073, 1088, 1086, 32, 1087, 1086, 1078, 1072, 1083, 1086, 1074, 1072, 1090, 1100, 32, 1074, 32, 83, 112, 101, 97, 107, 70, 108, 111, 119, 32, 69, 110, 103, 108, 105, 115, 104, 33, 10, 10, 1071, 32, 65, 73, 45, 1087, 1086, 1084, 1086, 1097, 1085, 1080, 1082, 32, 1086, 1085, 1083, 1072, 1081, 1085, 45, 1096, 1082, 1086, 1083, 1099, 32, 1072, 1085, 1075, 1083, 1080, 1081, 1089, 1082, 1086, 1075, 1086, 32, 1103, 1079, 1099, 1082, 1072, 46, 32, 1055, 1086, 1084, 1086, 1075, 1091, 32, 1074, 1072, 1084, 32, 1091, 1079, 1085, 1072, 1090, 1100, 32, 1086, 32, 1085, 1072, 1096, 1080, 1093, 32, 1082, 1091, 1088, 1089, 1072, 1093, 44, 32, 1087, 1088, 1077, 1087, 1086, 1076, 1072, 1074, 1072, 1090, 1077, 1083, 1103, 1093, 44, 32, 1094, 1077, 1085, 1072, 1093, 32, 1080, 32, 1079, 1072, 1087, 1080, 1089, 1072, 1090, 1100, 1089, 1103, 32, 1085, 1072, 32, 1087, 1088, 1086, 1073, 1085, 1086, 1077, 32, 1079, 1072, 1085, 1103, 1090, 1080, 1077, 46, 10, 10, 1042, 1099, 1073, 1077, 1088, 1080, 1090, 1077, 32, 1080, 1085, 1090, 1077, 1088, 1077, 1089, 1091, 1102, 1097, 1080, 1081, 32, 1088, 1072, 1079, 1076, 1077, 1083, 32, 1074, 32, 1084, 1077, 1085, 1102, 32, 1085, 1080, 1078, 1077, 32, 1080, 1083, 1080, 32, 1079, 1072, 1076, 1072, 1081, 1090, 1077, 32, 1074, 1086, 1087, 1088, 1086, 1089, 32, 1074, 32, 1095, 1072, 1090, 1077, 32, 128071>>

\* /start without the call of clear_history
start_command_keeps_history ==
    /\ user_data' = reset_state(user_data).ud
    /\ UNCHANGED appended
    /\ Event("start_command", <<>>, TRUE, <<>>, <<format_welcome_message>>)

start_command ==
    /\ user_data' = reset_state(clear_history(user_data).ud).ud
    /\ appended' = <<>>
    /\ Event("start_command", <<>>, TRUE, <<>>, <<format_welcome_message>>)

\* /reset without the call of clear_booking_data
reset_command_keeps_booking ==
    /\ user_data' = reset_state(clear_history(user_data).ud).ud
    /\ appended' = <<>>
    /\ Event("reset_command", <<>>, TRUE, <<>>,
             <<(* "🔄 История разговора очищена!\n\nЧем могу помочь?" *) <<128260, 32, 1048, 1089, 1090, 1086, 1088, 1080, 1103, 32, 1088, 1072, 1079, 1075, 1086, 1074, 1086, 1088, 1072, 32, 1086, 1095, 1080, 1097, 1077, 1085, 1072, 33, 10, 10, 1063, 1077, 1084, 32, 1084, 1086, 1075, 1091, 32, 1087, 1086, 1084, 1086, 1095, 1100, 63>>>>)

\* reset_command(update, context)
reset_command ==
    /\ user_data' =
           reset_state(clear_booking_data(clear_history(user_data).ud).ud).ud
    /\ appended' = <<>>
    /\ Event("reset_command", <<>>, TRUE, <<>>,
             <<(* "🔄 История разговора очищена!\n\nЧем могу помочь?" *) <<128260, 32, 1048, 1089, 1090, 1086, 1088, 1080, 1103, 32, 1088, 1072, 1079, 1075, 1086, 1074, 1086, 1088, 1072, 32, 1086, 1095, 1080, 1097, 1077, 1085, 1072, 33, 10, 10, 1063, 1077, 1084, 32, 1084, 1086, 1075, 1091, 32, 1087, 1086, 1084, 1086, 1095, 1100, 63>>>>)

book_command ==
    /\ ENABLE_BOOKING
    /\ user_data' = start_booking(user_data).ud
    /\ Event("book_command", <<>>, TRUE, <<>>,
             <<(* "📝 <b>Запись на пробное занятие</b>\n\nОтлично! Давайте запишем вас на бесплатный пробный урок (60 минут).\n\nШаг 1/5: Выберите курс, который вас интересует:" *) <<128221, 32, 60, 98, 62, 1047, 1072, 1087, 1080, 1089, 1100, 32, 1085, 1072, 32, 1087, 1088, 1086, 1073, 1085, 1086, 1077, 32, 1079, 1072, 1085, 1103, 1090, 1080, 1077, 60, 47, 98, 62, 10, 10, 1054, 1090, 1083, 1080, 1095, 1085, 1086, 33, 32, 1044, 1072, 1074, 1072, 1081, 1090, 1077, 32, 1079, 1072, 1087, 1080, 1096, 1077, 1084, 32, 1074, 1072, 1089, 32, 1085, 1072, 32, 1073, 1077, 1089, 1087, 1083, 1072, 1090, 1085, 1099, 1081, 32, 1087, 1088, 1086, 1073, 1085, 1099, 1081, 32, 1091, 1088, 1086, 1082, 32, 40, 54, 48, 32, 1084, 1080, 1085, 1091, 1090, 41, 46, 10, 10, 1064, 1072, 1075, 32, 49, 47, 53, 58, 32, 1042, 1099, 1073, 1077, 1088, 1080, 1090, 1077, 32, 1082, 1091, 1088, 1089, 44, 32, 1082, 1086, 1090, 1086, 1088, 1099, 1081, 32, 1074, 1072, 1089, 32, 1080, 1085, 1090, 1077, 1088, 1077, 1089, 1091, 1077, 1090, 58>>>>)
    /\ UNCHANGED appended

\* /help, /menu, /courses, /prices, /teachers, /reviews, /faq, /contact:
\* each sends its text and writes nothing (the text of /menu is shown)
info_command ==
    /\ Event("info_command", <<>>, TRUE, <<>>,
             <<(* "📋 Главное меню SpeakFlow English\n\nВыберите интересующий раздел:" *) <<128203, 32, 1043, 1083, 1072, 1074, 1085, 1086, 1077, 32, 1084, 1077, 1085, 1102, 32, 83, 112, 101, 97, 107, 70, 108, 111, 119, 32, 69, 110, 103, 108, 105, 115, 104, 10, 10, 1042, 1099, 1073, 1077, 1088, 1080, 1090, 1077, 32, 1080, 1085, 1090, 1077, 1088, 1077, 1089, 1091, 1102, 1097, 1080, 1081, 32, 1088, 1072, 1079, 1076, 1077, 1083, 58>>>>)
    /\ UNCHANGED <<user_data, appended>>

\* str.replace(old, "")
RECURSIVE Remove(_, _)
Remove(s, old) ==
    IF s = <<>> THEN <<>>
    ELSE IF StartsWith(s, old) THEN Remove(SubSeq(s, Len(old) + 1, Len(s)), old)
    ELSE <<Head(s)>> \o Remove(Tail(s), old)

\* the text of a button that only renders (the knowledge files of prices,
\* teachers and reviews absent: get_knowledge_file returns None)
DisplayText(callback_data) ==
    CASE callback_data = (* "back_to_menu" *) <<98, 97, 99, 107, 95, 116, 111, 95, 109, 101, 110, 117>> ->
             (* "📋 Главное меню\n\nВыберите интересующий раздел:" *) <<128203, 32, 1043, 1083, 1072, 1074, 1085, 1086, 1077, 32, 1084, 1077, 1085, 1102, 10, 10, 1042, 1099, 1073, 1077, 1088, 1080, 1090, 1077, 32, 1080, 1085, 1090, 1077, 1088, 1077, 1089, 1091, 1102, 1097, 1080, 1081, 32, 1088, 1072, 1079, 1076, 1077, 1083, 58>>
      [] callback_data = (* "menu_courses" *) <<109, 101, 110, 117, 95, 99, 111, 117, 114, 115, 101, 115>> ->
             (* "📚 Каталог курсов\n\nВыберите категорию:" *) <<128218, 32, 1050, 1072, 1090, 1072, 1083, 1086, 1075, 32, 1082, 1091, 1088, 1089, 1086, 1074, 10, 10, 1042, 1099, 1073, 1077, 1088, 1080, 1090, 1077, 32, 1082, 1072, 1090, 1077, 1075, 1086, 1088, 1080, 1102, 58>>
      [] callback_data = (* "menu_prices" *) <<109, 101, 110, 117, 95, 112, 114, 105, 99, 101, 115>> ->
             (* "💰 <b>Цены и тарифы</b>\n\nИнформация о ценах временно недоступна." *) <<128176, 32, 60, 98, 62, 1062, 1077, 1085, 1099, 32, 1080, 32, 1090, 1072, 1088, 1080, 1092, 1099, 60, 47, 98, 62, 10, 10, 1048, 1085, 1092, 1086, 1088, 1084, 1072, 1094, 1080, 1103, 32, 1086, 32, 1094, 1077, 1085, 1072, 1093, 32, 1074, 1088, 1077, 1084, 1077, 1085, 1085, 1086, 32, 1085, 1077, 1076, 1086, 1089, 1090, 1091, 1087, 1085, 1072, 46>>
      [] callback_data = (* "menu_teachers" *) <<109, 101, 110, 117, 95, 116, 101, 97, 99, 104, 101, 114, 115>> ->
             (* "👨‍🏫 <b>Наши преподаватели</b>\n\nИнформация о преподавателях временно недоступна." *) <<128104, 8205, 127979, 32, 60, 98, 62, 1053, 1072, 1096, 1080, 32, 1087, 1088, 1077, 1087, 1086, 1076, 1072, 1074, 1072, 1090, 1077, 1083, 1080, 60, 47, 98, 62, 10, 10, 1048, 1085, 1092, 1086, 1088, 1084, 1072, 1094, 1080, 1103, 32, 1086, 32, 1087, 1088, 1077, 1087, 1086, 1076, 1072, 1074, 1072, 1090, 1077, 1083, 1103, 1093, 32, 1074, 1088, 1077, 1084, 1077, 1085, 1085, 1086, 32, 1085, 1077, 1076, 1086, 1089, 1090, 1091, 1087, 1085, 1072, 46>>
      [] callback_data = (* "menu_schedule" *) <<109, 101, 110, 117, 95, 115, 99, 104, 101, 100, 117, 108, 101>> ->
             (* "📅 <b>Расписание занятий</b>\n\n<b>Групповые занятия:</b>\n🌅 Утро: 08:00 – 09:00 МСК\n☀️ День: 13:00 – 14:00 МСК\n🌙 Вечер: 19:00 – 20:00 МСК\n🌃 Поздний вечер: 20:30 – 21:30 МСК\n\n<b>Speaking Clubs:</b>\nСуббота: 11:00 и 18:00 МСК\n\n📍 Все занятия проходят в Zoom\n⏰ Расписание подбирается с учётом вашего часового пояса" *) <<128197, 32, 60, 98, 62, 1056, 1072, 1089, 1087, 1080, 1089, 1072, 1085, 1080, 1077, 32, 1079, 1072, 1085, 1103, 1090, 1080, 1081, 60, 47, 98, 62, 10, 10, 60, 98, 62, 1043, 1088, 1091, 1087, 1087, 1086, 1074, 1099, 1077, 32, 1079, 1072, 1085, 1103, 1090, 1080, 1103, 58, 60, 47, 98, 62, 10, 127749, 32, 1059, 1090, 1088, 1086, 58, 32, 48, 56, 58, 48, 48, 32, 8211, 32, 48, 57, 58, 48, 48, 32, 1052, 1057, 1050, 10, 9728, 65039, 32, 1044, 1077, 1085, 1100, 58, 32, 49, 51, 58, 48, 48, 32, 8211, 32, 49, 52, 58, 48, 48, 32, 1052, 1057, 1050, 10, 127769, 32, 1042, 1077, 1095, 1077, 1088, 58, 32, 49, 57, 58, 48, 48, 32, 8211, 32, 50, 48, 58, 48, 48, 32, 1052, 1057, 1050, 10, 127747, 32, 1055, 1086, 1079, 1076, 1085, 1080, 1081, 32, 1074, 1077, 1095, 1077, 1088, 58, 32, 50, 48, 58, 51, 48, 32, 8211, 32, 50, 49, 58, 51, 48, 32, 1052, 1057, 1050, 10, 10, 60, 98, 62, 83, 112, 101, 97, 107, 105, 110, 103, 32, 67, 108, 117, 98, 115, 58, 60, 47, 98, 62, 10, 1057, 1091, 1073, 1073, 1086, 1090, 1072, 58, 32, 49, 49, 58, 48, 48, 32, 1080, 32, 49, 56, 58, 48, 48, 32, 1052, 1057, 1050, 10, 10, 128205, 32, 1042, 1089, 1077, 32, 1079, 1072, 1085, 1103, 1090, 1080, 1103, 32, 1087, 1088, 1086, 1093, 1086, 1076, 1103, 1090, 32, 1074, 32, 90, 111, 111, 109, 10, 9200, 32, 1056, 1072, 1089, 1087, 1080, 1089, 1072, 1085, 1080, 1077, 32, 1087, 1086, 1076, 1073, 1080, 1088, 1072, 1077, 1090, 1089, 1103, 32, 1089, 32, 1091, 1095, 1105, 1090, 1086, 1084, 32, 1074, 1072, 1096, 1077, 1075, 1086, 32, 1095, 1072, 1089, 1086, 1074, 1086, 1075, 1086, 32, 1087, 1086, 1103, 1089, 1072>>
      [] callback_data = (* "menu_reviews" *) <<109, 101, 110, 117, 95, 114, 101, 118, 105, 101, 119, 115>> ->
             (* "⭐ <b>Отзывы студентов</b>\n\nОтзывы временно недоступны." *) <<11088, 32, 60, 98, 62, 1054, 1090, 1079, 1099, 1074, 1099, 32, 1089, 1090, 1091, 1076, 1077, 1085, 1090, 1086, 1074, 60, 47, 98, 62, 10, 10, 1054, 1090, 1079, 1099, 1074, 1099, 32, 1074, 1088, 1077, 1084, 1077, 1085, 1085, 1086, 32, 1085, 1077, 1076, 1086, 1089, 1090, 1091, 1087, 1085, 1099, 46>>
      [] callback_data = (* "menu_faq" *) <<109, 101, 110, 117, 95, 102, 97, 113>> ->
             (* "❓ <b>Часто задаваемые вопросы</b>\n\nВыберите категорию:" *) <<10067, 32, 60, 98, 62, 1063, 1072, 1089, 1090, 1086, 32, 1079, 1072, 1076, 1072, 1074, 1072, 1077, 1084, 1099, 1077, 32, 1074, 1086, 1087, 1088, 1086, 1089, 1099, 60, 47, 98, 62, 10, 10, 1042, 1099, 1073, 1077, 1088, 1080, 1090, 1077, 32, 1082, 1072, 1090, 1077, 1075, 1086, 1088, 1080, 1102, 58>>
      [] callback_data = (* "menu_contact" *) <<109, 101, 110, 117, 95, 99, 111, 110, 116, 97, 99, 116>> ->
             (* "📞 <b>Контактная информация</b>\n\n🌐 Сайт: https://speakflow-english.com\n📧 Email: support@speakflow-english.com\n📱 Телефон: +7 495 123 45 67\n\n⏰ <b>Часы работы поддержки:</b>\nПонедельник – Пятница: 10:00 – 19:00 МСК\n\n💬 Telegram-бот работает 24/7" *) <<128222, 32, 60, 98, 62, 1050, 1086, 1085, 1090, 1072, 1082, 1090, 1085, 1072, 1103, 32, 1080, 1085, 1092, 1086, 1088, 1084, 1072, 1094, 1080, 1103, 60, 47, 98, 62, 10, 10, 127760, 32, 1057, 1072, 1081, 1090, 58, 32, 104, 116, 116, 112, 115, 58, 47, 47, 115, 112, 101, 97, 107, 102, 108, 111, 119, 45, 101, 110, 103, 108, 105, 115, 104, 46, 99, 111, 109, 10, 128231, 32, 69, 109, 97, 105, 108, 58, 32, 115, 117, 112, 112, 111, 114, 116, 64, 115, 112, 101, 97, 107, 102, 108, 111, 119, 45, 101, 110, 103, 108, 105, 115, 104, 46, 99, 111, 109, 10, 128241, 32, 1058, 1077, 1083, 1077, 1092, 1086, 1085, 58, 32, 43, 55, 32, 52, 57, 53, 32, 49, 50, 51, 32, 52, 53, 32, 54, 55, 10, 10, 9200, 32, 60, 98, 62, 1063, 1072, 1089, 1099, 32, 1088, 1072, 1073, 1086, 1090, 1099, 32, 1087, 1086, 1076, 1076, 1077, 1088, 1078, 1082, 1080, 58, 60, 47, 98, 62, 10, 1055, 1086, 1085, 1077, 1076, 1077, 1083, 1100, 1085, 1080, 1082, 32, 8211, 32, 1055, 1103, 1090, 1085, 1080, 1094, 1072, 58, 32, 49, 48, 58, 48, 48, 32, 8211, 32, 49, 57, 58, 48, 48, 32, 1052, 1057, 1050, 10, 10, 128172, 32, 84, 101, 108, 101, 103, 114, 97, 109, 45, 1073, 1086, 1090, 32, 1088, 1072, 1073, 1086, 1090, 1072, 1077, 1090, 32, 50, 52, 47, 55>>
      [] OTHER ->
             (* "📘 <b>Общий английский</b>\n\nВыберите уровень:" *) <<128216, 32, 60, 98, 62, 1054, 1073, 1097, 1080, 1081, 32, 1072, 1085, 1075, 1083, 1080, 1081, 1089, 1082, 1080, 1081, 60, 47, 98, 62, 10, 10, 1042, 1099, 1073, 1077, 1088, 1080, 1090, 1077, 32, 1091, 1088, 1086, 1074, 1077, 1085, 1100, 58>>

\* the if/elif chain of button_callback, in its order: the session it
\* leaves and the texts it sends
ButtonResult(ud, callback_data) ==
    IF callback_data \in DisplayButtons \ {(* "courses_general" *) <<99, 111, 117, 114, 115, 101, 115, 95, 103, 101, 110, 101, 114, 97, 108>>}
    THEN [ud |-> ud, sent |-> <<DisplayText(callback_data)>>]
    ELSE IF callback_data = (* "menu_chat" *) <<109, 101, 110, 117, 95, 99, 104, 97, 116>>
    THEN [ud |-> reset_state(ud).ud,
          sent |-> <<(* "💬 <b>Чат с AI-помощником</b>\n\nЗадайте любой вопрос о наших курсах, ценах, преподавателях - я отвечу на основе базы знаний школы!\n\nПросто напишите ваш вопрос в чат 👇" *) <<128172, 32, 60, 98, 62, 1063, 1072, 1090, 32, 1089, 32, 65, 73, 45, 1087, 1086, 1084, 1086, 1097, 1085, 1080, 1082, 1086, 1084, 60, 47, 98, 62, 10, 10, 1047, 1072, 1076, 1072, 1081, 1090, 1077, 32, 1083, 1102, 1073, 1086, 1081, 32, 1074, 1086, 1087, 1088, 1086, 1089, 32, 1086, 32, 1085, 1072, 1096, 1080, 1093, 32, 1082, 1091, 1088, 1089, 1072, 1093, 44, 32, 1094, 1077, 1085, 1072, 1093, 44, 32, 1087, 1088, 1077, 1087, 1086, 1076, 1072, 1074, 1072, 1090, 1077, 1083, 1103, 1093, 32, 45, 32, 1103, 32, 1086, 1090, 1074, 1077, 1095, 1091, 32, 1085, 1072, 32, 1086, 1089, 1085, 1086, 1074, 1077, 32, 1073, 1072, 1079, 1099, 32, 1079, 1085, 1072, 1085, 1080, 1081, 32, 1096, 1082, 1086, 1083, 1099, 33, 10, 10, 1055, 1088, 1086, 1089, 1090, 1086, 32, 1085, 1072, 1087, 1080, 1096, 1080, 1090, 1077, 32, 1074, 1072, 1096, 32, 1074, 1086, 1087, 1088, 1086, 1089, 32, 1074, 32, 1095, 1072, 1090, 32, 128071>>>>]
    ELSE IF callback_data = (* "courses_general" *) <<99, 111, 117, 114, 115, 101, 115, 95, 103, 101, 110, 101, 114, 97, 108>>
    THEN [ud |-> ud, sent |-> <<DisplayText(callback_data)>>]
    ELSE IF StartsWith(callback_data, (* "course_" *) <<99, 111, 117, 114, 115, 101, 95>>)
    THEN [ud |-> ud,
          sent |-> <<(* "📚 Информация о курсе '" *) <<128218, 32, 1048, 1085, 1092, 1086, 1088, 1084, 1072, 1094, 1080, 1103, 32, 1086, 32, 1082, 1091, 1088, 1089, 1077, 32, 39>> \o Remove(callback_data, (* "course_" *) <<99, 111, 117, 114, 115, 101, 95>>)
                     \o (* "'\n\nДля подробной информации спросите в чате или позвоните нам!" *) <<39, 10, 10, 1044, 1083, 1103, 32, 1087, 1086, 1076, 1088, 1086, 1073, 1085, 1086, 1081, 32, 1080, 1085, 1092, 1086, 1088, 1084, 1072, 1094, 1080, 1080, 32, 1089, 1087, 1088, 1086, 1089, 1080, 1090, 1077, 32, 1074, 32, 1095, 1072, 1090, 1077, 32, 1080, 1083, 1080, 32, 1087, 1086, 1079, 1074, 1086, 1085, 1080, 1090, 1077, 32, 1085, 1072, 1084, 33>>>>]
    ELSE IF StartsWith(callback_data, (* "faq_" *) <<102, 97, 113, 95>>)
    THEN [ud |-> ud,
          sent |-> <<(* "❓ FAQ: " *) <<10067, 32, 70, 65, 81, 58, 32>> \o Remove(callback_data, (* "faq_" *) <<102, 97, 113, 95>>)
                     \o (* "\n\nЗадайте конкретный вопрос в чате, и я отвечу!" *) <<10, 10, 1047, 1072, 1076, 1072, 1081, 1090, 1077, 32, 1082, 1086, 1085, 1082, 1088, 1077, 1090, 1085, 1099, 1081, 32, 1074, 1086, 1087, 1088, 1086, 1089, 32, 1074, 32, 1095, 1072, 1090, 1077, 44, 32, 1080, 32, 1103, 32, 1086, 1090, 1074, 1077, 1095, 1091, 33>>>>]
    ELSE IF callback_data = (* "menu_book" *) <<109, 101, 110, 117, 95, 98, 111, 111, 107>>
    THEN [ud |-> start_booking(ud).ud,
          sent |-> <<(* "📝 <b>Запись на пробное занятие</b>\n\nШаг 1/5: Выберите курс:" *) <<128221, 32, 60, 98, 62, 1047, 1072, 1087, 1080, 1089, 1100, 32, 1085, 1072, 32, 1087, 1088, 1086, 1073, 1085, 1086, 1077, 32, 1079, 1072, 1085, 1103, 1090, 1080, 1077, 60, 47, 98, 62, 10, 10, 1064, 1072, 1075, 32, 49, 47, 53, 58, 32, 1042, 1099, 1073, 1077, 1088, 1080, 1090, 1077, 32, 1082, 1091, 1088, 1089, 58>>>>]
    ELSE IF StartsWith(callback_data, (* "book_" *) <<98, 111, 111, 107, 95>>)
    THEN LET r == set_course(ud, callback_data)
         IN  [ud |-> r.ud,
              sent |-> IF r.ret
                       THEN <<(* "✅ Отлично!\n\nШаг 2/5: Выберите удобное время:" *) <<9989, 32, 1054, 1090, 1083, 1080, 1095, 1085, 1086, 33, 10, 10, 1064, 1072, 1075, 32, 50, 47, 53, 58, 32, 1042, 1099, 1073, 1077, 1088, 1080, 1090, 1077, 32, 1091, 1076, 1086, 1073, 1085, 1086, 1077, 32, 1074, 1088, 1077, 1084, 1103, 58>>>>
                       ELSE <<>>]
    ELSE IF StartsWith(callback_data, (* "time_" *) <<116, 105, 109, 101, 95>>)
    THEN LET r == set_time(ud, callback_data)
         IN  [ud |-> r.ud,
              sent |-> IF r.ret
                       THEN <<(* "✅ Отлично!\n\nШаг 3/5: Введите ваше имя (отправьте сообщением):" *) <<9989, 32, 1054, 1090, 1083, 1080, 1095, 1085, 1086, 33, 10, 10, 1064, 1072, 1075, 32, 51, 47, 53, 58, 32, 1042, 1074, 1077, 1076, 1080, 1090, 1077, 32, 1074, 1072, 1096, 1077, 32, 1080, 1084, 1103, 32, 40, 1086, 1090, 1087, 1088, 1072, 1074, 1100, 1090, 1077, 32, 1089, 1086, 1086, 1073, 1097, 1077, 1085, 1080, 1077, 1084, 41, 58>>>>
                       ELSE <<>>]
    ELSE IF callback_data = (* "booking_cancel" *) <<98, 111, 111, 107, 105, 110, 103, 95, 99, 97, 110, 99, 101, 108>>
    THEN [ud |-> cancel_booking(ud).ud,
          sent |-> <<(* "❌ Бронирование отменено.\n\nВернуться в главное меню:" *) <<10060, 32, 1041, 1088, 1086, 1085, 1080, 1088, 1086, 1074, 1072, 1085, 1080, 1077, 32, 1086, 1090, 1084, 1077, 1085, 1077, 1085, 1086, 46, 10, 10, 1042, 1077, 1088, 1085, 1091, 1090, 1100, 1089, 1103, 32, 1074, 32, 1075, 1083, 1072, 1074, 1085, 1086, 1077, 32, 1084, 1077, 1085, 1102, 58>>>>]
    ELSE [ud |-> ud, sent |-> <<>>]

button_callback(callback_data) ==
    LET r == ButtonResult(user_data, callback_data)
    IN  /\ user_data' = r.ud
        /\ Event("button_callback", callback_data, TRUE, <<>>, r.sent)
        /\ UNCHANGED appended

\* format_booking_confirmation(name, course, time, email, phone)
format_booking_confirmation(name, course, time, email, phone) ==
    (* "✅ <b>Запись на пробное занятие подтверждена!</b>\n\n👤 Имя: " *) <<9989, 32, 60, 98, 62, 1047, 1072, 1087, 1080, 1089, 1100, 32, 1085, 1072, 32, 1087, 1088, 1086, 1073, 1085, 1086, 1077, 32, 1079, 1072, 1085, 1103, 1090, 1080, 1077, 32, 1087, 1086, 1076, 1090, 1074, 1077, 1088, 1078, 1076, 1077, 1085, 1072, 33, 60, 47, 98, 62, 10, 10, 128100, 32, 1048, 1084, 1103, 58, 32>> \o name.val
    \o (* "\n📚 Курс: " *) <<10, 128218, 32, 1050, 1091, 1088, 1089, 58, 32>> \o course.val
    \o (* "\n⏰ Время: " *) <<10, 9200, 32, 1042, 1088, 1077, 1084, 1103, 58, 32>> \o time.val
    \o (* "\n📧 Email: " *) <<10, 128231, 32, 69, 109, 97, 105, 108, 58, 32>> \o email.val \o (* "\n" *) <<10>>
    \o (IF Truthy(phone) THEN (* "📱 Телефон: " *) <<128241, 32, 1058, 1077, 1083, 1077, 1092, 1086, 1085, 58, 32>> \o phone.val \o (* "\n" *) <<10>> ELSE <<>>)
    \o (* "\n📩 На ваш email отправлено письмо с подтверждением и ссылкой на Zoom.\n\nДо встречи на занятии! 🎉" *) <<10, 128233, 32, 1053, 1072, 32, 1074, 1072, 1096, 32, 101, 109, 97, 105, 108, 32, 1086, 1090, 1087, 1088, 1072, 1074, 1083, 1077, 1085, 1086, 32, 1087, 1080, 1089, 1100, 1084, 1086, 32, 1089, 32, 1087, 1086, 1076, 1090, 1074, 1077, 1088, 1078, 1076, 1077, 1085, 1080, 1077, 1084, 32, 1080, 32, 1089, 1089, 1099, 1083, 1082, 1086, 1081, 32, 1085, 1072, 32, 90, 111, 111, 109, 46, 10, 10, 1044, 1086, 32, 1074, 1089, 1090, 1088, 1077, 1095, 1080, 32, 1085, 1072, 32, 1079, 1072, 1085, 1103, 1090, 1080, 1080, 33, 32, 127881>>

\* the step of the phone branch after set_phone succeeded
ConfirmAfterPhone(ud) ==
    IF get_booking_summary(ud).ret # PyNone THEN confirm_booking(ud).ud ELSE ud

\* what the phone branch sends after set_phone succeeded
SentAfterPhone(ud) ==
    LET booking_data == get_booking_summary(ud).ret
    IN  IF booking_data # PyNone
        THEN <<format_booking_confirmation(booking_data.name, booking_data.course,
                                           booking_data.time, booking_data.email,
                                           booking_data.phone)>>
        ELSE <<(* "❌ Ошибка при обработке бронирования. Попробуйте снова /book" *) <<10060, 32, 1054, 1096, 1080, 1073, 1082, 1072, 32, 1087, 1088, 1080, 32, 1086, 1073, 1088, 1072, 1073, 1086, 1090, 1082, 1077, 32, 1073, 1088, 1086, 1085, 1080, 1088, 1086, 1074, 1072, 1085, 1080, 1103, 46, 32, 1055, 1086, 1087, 1088, 1086, 1073, 1091, 1081, 1090, 1077, 32, 1089, 1085, 1086, 1074, 1072, 32, 47, 98, 111, 111, 107>>>>

\* the reply to a rejected input: the validator's reason, then the prompt
Rejection(error, prompt) == (* "⚠️ " *) <<9888, 65039, 32>> \o error \o (* "\n\n" *) <<10, 10>> \o prompt

\* what handle_booking_input sends: state is the conversation state it
\* found, r what the booking operation returned
BookingInputSent(state, r, ud) ==
    IF state = "BOOKING_NAME" THEN
        IF r.ret[1]
        THEN <<(* "✅ Отлично!\n\nШаг 3/5: Введите ваш email для отправки подтверждения:" *) <<9989, 32, 1054, 1090, 1083, 1080, 1095, 1085, 1086, 33, 10, 10, 1064, 1072, 1075, 32, 51, 47, 53, 58, 32, 1042, 1074, 1077, 1076, 1080, 1090, 1077, 32, 1074, 1072, 1096, 32, 101, 109, 97, 105, 108, 32, 1076, 1083, 1103, 32, 1086, 1090, 1087, 1088, 1072, 1074, 1082, 1080, 32, 1087, 1086, 1076, 1090, 1074, 1077, 1088, 1078, 1076, 1077, 1085, 1080, 1103, 58>>>>
        ELSE <<Rejection(r.ret[2], (* "Пожалуйста, введите корректное имя:" *) <<1055, 1086, 1078, 1072, 1083, 1091, 1081, 1089, 1090, 1072, 44, 32, 1074, 1074, 1077, 1076, 1080, 1090, 1077, 32, 1082, 1086, 1088, 1088, 1077, 1082, 1090, 1085, 1086, 1077, 32, 1080, 1084, 1103, 58>>)>>
    ELSE IF state = "BOOKING_EMAIL" THEN
        IF r.ret[1]
        THEN <<(* "✅ Отлично!\n\nШаг 4/5: Введите ваш телефон (или напишите 'пропустить'):" *) <<9989, 32, 1054, 1090, 1083, 1080, 1095, 1085, 1086, 33, 10, 10, 1064, 1072, 1075, 32, 52, 47, 53, 58, 32, 1042, 1074, 1077, 1076, 1080, 1090, 1077, 32, 1074, 1072, 1096, 32, 1090, 1077, 1083, 1077, 1092, 1086, 1085, 32, 40, 1080, 1083, 1080, 32, 1085, 1072, 1087, 1080, 1096, 1080, 1090, 1077, 32, 39, 1087, 1088, 1086, 1087, 1091, 1089, 1090, 1080, 1090, 1100, 39, 41, 58>>>>
        ELSE <<Rejection(r.ret[2], (* "Пожалуйста, введите корректный email:" *) <<1055, 1086, 1078, 1072, 1083, 1091, 1081, 1089, 1090, 1072, 44, 32, 1074, 1074, 1077, 1076, 1080, 1090, 1077, 32, 1082, 1086, 1088, 1088, 1077, 1082, 1090, 1085, 1099, 1081, 32, 101, 109, 97, 105, 108, 58>>)>>
    ELSE IF state = "BOOKING_PHONE" THEN
        IF r.ret[1] THEN SentAfterPhone(r.ud)
        ELSE <<Rejection(r.ret[2], (* "Пожалуйста, введите корректный телефон или 'пропустить':" *) <<1055, 1086, 1078, 1072, 1083, 1091, 1081, 1089, 1090, 1072, 44, 32, 1074, 1074, 1077, 1076, 1080, 1090, 1077, 32, 1082, 1086, 1088, 1088, 1077, 1082, 1090, 1085, 1099, 1081, 32, 1090, 1077, 1083, 1077, 1092, 1086, 1085, 32, 1080, 1083, 1080, 32, 39, 1087, 1088, 1086, 1087, 1091, 1089, 1090, 1080, 1090, 1100, 39, 58>>)>>
    ELSE <<>>

handle_booking_input(user_input) ==
    LET state == get_state(user_data)
        r == IF state = "BOOKING_NAME" THEN set_name(user_data, user_input)
             ELSE IF state = "BOOKING_EMAIL" THEN set_email(user_data, user_input)
             ELSE IF state = "BOOKING_PHONE" THEN set_phone(user_data, user_input)
             ELSE [ud |-> user_data, ret |-> <<TRUE, <<>>>>]
    IN  /\ user_data' = IF state = "BOOKING_PHONE" /\ r.ret[1]
                        THEN ConfirmAfterPhone(r.ud) ELSE r.ud
        /\ Event("handle_booking_input", user_input, r.ret[1], r.ret[2],
                 BookingInputSent(state, r, user_data))
        /\ UNCHANGED appended

handle_message(user_message) ==
    \E ai_response \in AiResponses :
        /\ Len(appended) + 2 <= MaxAppends
        /\ user_data' =
               add_message(add_message(user_data, "user", user_message).ud,
                           "assistant", ai_response).ud
        /\ appended' = appended \o <<[role |-> "user", content |-> user_message],
                                     [role |-> "assistant", content |-> ai_response]>>
        /\ Event("handle_message", user_message, TRUE, ai_response,
                 split_long_message(ai_response, MAX_MESSAGE_LENGTH))

\* message_router asking for the AI chat before the booking form
message_router_chat_first(text) ==
    IF ENABLE_AI_CHAT THEN handle_message(text)
    ELSE IF is_in_booking_flow(user_data) THEN handle_booking_input(text)
    ELSE /\ Event("message_router", text, TRUE, <<>>,
                  <<(* "Используйте команды меню для навигации. /help для списка команд." *) <<1048, 1089, 1087, 1086, 1083, 1100, 1079, 1091, 1081, 1090, 1077, 32, 1082, 1086, 1084, 1072, 1085, 1076, 1099, 32, 1084, 1077, 1085, 1102, 32, 1076, 1083, 1103, 32, 1085, 1072, 1074, 1080, 1075, 1072, 1094, 1080, 1080, 46, 32, 47, 104, 101, 108, 112, 32, 1076, 1083, 1103, 32, 1089, 1087, 1080, 1089, 1082, 1072, 32, 1082, 1086, 1084, 1072, 1085, 1076, 46>>>>)
         /\ UNCHANGED <<user_data, appended>>

\* message_router(update, context), registered for the text messages
message_router(text) ==
    IF is_in_booking_flow(user_data) THEN handle_booking_input(text)
    ELSE IF ENABLE_AI_CHAT THEN handle_message(text)
    ELSE /\ Event("message_router", text, TRUE, <<>>,
                  <<(* "Используйте команды меню для навигации. /help для списка команд." *) <<1048, 1089, 1087, 1086, 1083, 1100, 1079, 1091, 1081, 1090, 1077, 32, 1082, 1086, 1084, 1072, 1085, 1076, 1099, 32, 1084, 1077, 1085, 1102, 32, 1076, 1083, 1103, 32, 1085, 1072, 1074, 1080, 1075, 1072, 1094, 1080, 1080, 46, 32, 47, 104, 101, 108, 112, 32, 1076, 1083, 1103, 32, 1089, 1087, 1080, 1089, 1082, 1072, 32, 1082, 1086, 1084, 1072, 1085, 1076, 46>>>>)
         /\ UNCHANGED <<user_data, appended>>

Next ==
    \/ start_command
    \/ reset_command
    \/ book_command
    \/ info_command
    \/ \E callback_data \in ButtonInputs : button_callback(callback_data)
    \/ \E text \in (IF is_in_booking_flow(user_data) THEN BookingTexts ELSE ChatTexts) :
           message_router(text)

Spec == Init /\ [][Next]_vars

----------------------------------------------------------------------------
(* Properties.                                                             *)

State == get_state(user_data)

BookingSteps ==
    <<"BOOKING_COURSE", "BOOKING_TIME", "BOOKING_NAME", "BOOKING_EMAIL",
      "BOOKING_PHONE", "BOOKING_CONFIRM">>

\* position of a booking state in the order of the form; 0 for IDLE and AI_CHAT
StepIndex(s) ==
    IF \E i \in 1..Len(BookingSteps) : BookingSteps[i] = s
    THEN CHOOSE i \in 1..Len(BookingSteps) : BookingSteps[i] = s
    ELSE 0

\* the field has a value (a key holding None has none)
Populated(ud, key) == key \in DOMAIN ud /\ ud[key] # PyNone

FieldsAbsent(ud) == \A i \in 1..Len(booking_keys) : booking_keys[i] \notin DOMAIN ud

\* course, time, name and email are all set to a non-empty text
RequiredSet(ud) ==
    \A key \in {"booking_course", "booking_time", "booking_name", "booking_email"} :
        Populated(ud, key) /\ Len(ud[key].val) > 0

Min(a, b) == IF a <= b THEN a ELSE b

\* C1: after every add_message the history holds at most 2*N messages, and
\* it is exactly the last min(k, 2*N) of the k messages appended since the
\* last clear, in the order they were appended.
C1_HistoryIsLastAppended ==
    LET k == Len(appended)
        n == Min(k, 2 * MAX_HISTORY_MESSAGES)
    IN  /\ Len(History) <= 2 * MAX_HISTORY_MESSAGES
        /\ History = SubSeq(appended, k - n + 1, k)

\* C1 witness: an add_message that pushed the history over 2*N and dropped
\* the oldest message.
C1_Witness ==
    /\ call.op = "add_message"
    /\ Len(appended) > 2 * MAX_HISTORY_MESSAGES
    /\ Len(History) = 2 * MAX_HISTORY_MESSAGES
    /\ History[1] # appended[1]

BookingOps ==
    {"start_booking", "cancel_booking", "set_course", "set_time", "set_name",
     "set_email", "set_phone", "get_booking_summary", "confirm_booking"}

\* C2 (as claimed): a booking operation changes the conversation state only
\* to the immediately next booking step, to IDLE through cancel or confirm,
\* or to BOOKING_COURSE through start_booking; it never steps back and never
\* skips a step.
C2_NoStepBackNoSkip ==
    [][call'.op \in BookingOps =>
          LET s == get_state(user_data)
              t == get_state(user_data')
          IN  \/ t = s
              \/ StepIndex(s) > 0 /\ StepIndex(t) = StepIndex(s) + 1
              \/ t = "IDLE" /\ call'.op \in {"cancel_booking", "confirm_booking"}
              \/ t = "BOOKING_COURSE" /\ call'.op = "start_booking"]_vars

\* C3 (as claimed): while a booking is in progress, a booking field is
\* populated only if its collection step comes before the current booking
\* state; the field the current state collects is not set.
C3_FieldsOnlyOfCompletedSteps ==
    StepIndex(State) > 0 =>
        \A i \in 1..Len(booking_keys) :
            Populated(user_data, booking_keys[i]) => i < StepIndex(State)

\* C4: cancel_booking, from every state and every content of the booking
\* fields, returns normally and leaves the state IDLE and all five booking
\* fields absent.
C4_CancelResets ==
    call.op = "cancel_booking" =>
        /\ call.ok
        /\ State = "IDLE"
        /\ "conversation_state" \in DOMAIN user_data
        /\ user_data["conversation_state"] = "idle"
        /\ FieldsAbsent(user_data)

\* C4 witness: cancel_booking has just run; the session is IDLE and holds
\* no booking field.
C4_Witness ==
    /\ call.op = "cancel_booking"
    /\ State = "IDLE"
    /\ FieldsAbsent(user_data)

IsSkipToken(text) == Lower(text) \in {(* "пропустить" *) <<1087, 1088, 1086, 1087, 1091, 1089, 1090, 1080, 1090, 1100>>, (* "skip" *) <<115, 107, 105, 112>>, (* "-" *) <<45>>}

\* C5 (as claimed): set_name, set_email or set_phone given an input its
\* validator rejects returns (False, non-empty message) and leaves the
\* session unchanged.
C5_RejectedInputChangesNothing ==
    [][(\/ call'.op = "set_name" /\ ~validate_name(call'.arg)[1]
        \/ call'.op = "set_email" /\ ~validate_email(call'.arg)[1]
        \/ call'.op = "set_phone" /\ ~validate_phone(call'.arg)[1])
       => /\ ~call'.ok
          /\ call'.msg # <<>>
          /\ user_data' = user_data]_vars

\* C5 (amended): set_name, set_email or set_phone given an input its
\* validator rejects -- for set_phone: an input that is not a skip token in
\* any letter case and that validate_phone rejects -- returns (False,
\* non-empty message) and leaves the session unchanged.
C5_RejectedNonSkipInputChangesNothing ==
    [][(\/ call'.op = "set_name" /\ ~validate_name(call'.arg)[1]
        \/ call'.op = "set_email" /\ ~validate_email(call'.arg)[1]
        \/ /\ call'.op = "set_phone"
           /\ ~IsSkipToken(call'.arg)
           /\ ~validate_phone(call'.arg)[1])
       => /\ ~call'.ok
          /\ call'.msg # <<>>
          /\ call'.msg = (IF call'.op = "set_name" THEN validate_name(call'.arg)
                          ELSE IF call'.op = "set_email" THEN validate_email(call'.arg)
                          ELSE validate_phone(call'.arg))[2]
          /\ user_data' = user_data]_vars

\* C5 witness: a rejected email at the email step, with the earlier fields
\* collected and the state still BOOKING_EMAIL.
C5_Witness ==
    /\ call.op = "set_email"
    /\ call.arg = (* "not-an-email" *) <<110, 111, 116, 45, 97, 110, 45, 101, 109, 97, 105, 108>>
    /\ ~call.ok
    /\ State = "BOOKING_EMAIL"
    /\ Populated(user_data, "booking_name")
    /\ "booking_email" \notin DOMAIN user_data

\* C6: set_phone with a skip token ("пропустить", "skip", "-") in any letter
\* case succeeds, sets the state to BOOKING_CONFIRM and leaves the phone
\* field None; the token is never stored as the phone.
C6_SkipLeavesPhoneUnset ==
    (call.op = "set_phone" /\ call.arg \in SkipInputs) =>
        /\ call.ok
        /\ call.msg = <<>>
        /\ State = "BOOKING_CONFIRM"
        /\ "booking_phone" \in DOMAIN user_data
        /\ user_data["booking_phone"] = PyNone

\* C6 witness: the upper-case Cyrillic token skipped the phone.
C6_Witness ==
    /\ call.op = "set_phone"
    /\ call.arg = (* "ПРОПУСТИТЬ" *) <<1055, 1056, 1054, 1055, 1059, 1057, 1058, 1048, 1058, 1068>>
    /\ State = "BOOKING_CONFIRM"
    /\ user_data["booking_phone"] = PyNone

\* the mapping get_booking_summary returns when it is complete
SummaryOf(ud) ==
    [course |-> ud["booking_course"],
     time   |-> ud["booking_time"],
     name   |-> ud["booking_name"],
     email  |-> ud["booking_email"],
     phone  |-> IF "booking_phone" \in DOMAIN ud THEN ud["booking_phone"] ELSE PyNone]

\* C7: get_booking_summary returns the field mapping if and only if course,
\* time, name and email are all set and non-empty, and None otherwise,
\* whatever the phone field holds; the call does not modify the session.
C7_SummaryIffRequiredSet ==
    [][/\ get_booking_summary(user_data).ret =
              (IF RequiredSet(user_data) THEN SummaryOf(user_data) ELSE PyNone)
       /\ call'.op = "get_booking_summary" =>
              /\ user_data' = user_data
              /\ call'.ok = RequiredSet(user_data)]_vars

\* C7 witness: a complete summary was returned while the phone was never
\* given.
C7_Witness ==
    /\ call.op = "get_booking_summary"
    /\ call.ok
    /\ RequiredSet(user_data)
    /\ "booking_phone" \notin DOMAIN user_data

\* C8: confirm_booking with course, time, name and email set returns True
\* and leaves the state IDLE with all booking fields cleared; with an
\* incomplete summary it returns False and leaves the state and the booking
\* fields exactly as they were.
C8_ConfirmNeedsCompleteSummary ==
    [][call'.op = "confirm_booking" =>
          IF RequiredSet(user_data)
          THEN /\ call'.ok
               /\ get_state(user_data') = "IDLE"
               /\ FieldsAbsent(user_data')
          ELSE /\ ~call'.ok
               /\ user_data' = user_data]_vars

\* C8 witness: a confirm refused for a booking that has a course and a time
\* but no name, the state still BOOKING_CONFIRM.
C8_Witness ==
    /\ call.op = "confirm_booking"
    /\ ~call.ok
    /\ State = "BOOKING_CONFIRM"
    /\ Populated(user_data, "booking_course")
    /\ Populated(user_data, "booking_time")
    /\ "booking_name" \notin DOMAIN user_data

\* C9: start_booking, from every state and every content of the booking
\* fields, ends in BOOKING_COURSE with all booking fields absent, and
\* calling it again changes nothing more.
C9_StartResetsAndIsIdempotent ==
    /\ call.op = "start_booking" =>
           /\ State = "BOOKING_COURSE"
           /\ FieldsAbsent(user_data)
    /\ LET once == start_booking(user_data).ud
       IN  /\ start_booking(once).ud = once
           /\ get_state(once) = "BOOKING_COURSE"
           /\ FieldsAbsent(once)

\* C9 witness: start_booking has just run, and running it in this state
\* again would change nothing.
C9_Witness ==
    /\ call.op = "start_booking"
    /\ State = "BOOKING_COURSE"
    /\ start_booking(user_data).ud = user_data

\* C10: set_course (set_time) with an identifier outside COURSE_NAMES
\* (TIME_SLOTS) returns False and leaves state and booking fields unchanged;
\* with an identifier of the table it returns True, stores the table's label
\* (not the identifier) in the course (time) field, sets the state to
\* BOOKING_TIME (BOOKING_NAME) and changes nothing else.
C10_SelectionStoresLabel ==
    [][/\ call'.op = "set_course" =>
              IF call'.arg \in DOMAIN COURSE_NAMES
              THEN /\ call'.ok
                   /\ user_data' =
                          DictSet(DictSet(user_data, "booking_course",
                                          PyStr(COURSE_NAMES[call'.arg])),
                                  "conversation_state", "booking_time")
                   /\ user_data'["booking_course"].val # call'.arg
                   /\ call'.arg = (* "book_it" *) <<98, 111, 111, 107, 95, 105, 116>> =>
                          user_data'["booking_course"].val = (* "IT English" *) <<73, 84, 32, 69, 110, 103, 108, 105, 115, 104>>
              ELSE /\ ~call'.ok
                   /\ user_data' = user_data
       /\ call'.op = "set_time" =>
              IF call'.arg \in DOMAIN TIME_SLOTS
              THEN /\ call'.ok
                   /\ user_data' =
                          DictSet(DictSet(user_data, "booking_time",
                                          PyStr(TIME_SLOTS[call'.arg])),
                                  "conversation_state", "booking_name")
                   /\ user_data'["booking_time"].val # call'.arg
                   /\ call'.arg = (* "time_morning" *) <<116, 105, 109, 101, 95, 109, 111, 114, 110, 105, 110, 103>> =>
                          user_data'["booking_time"].val = (* "Утро (08:00-09:00 МСК)" *) <<1059, 1090, 1088, 1086, 32, 40, 48, 56, 58, 48, 48, 45, 48, 57, 58, 48, 48, 32, 1052, 1057, 1050, 41>>
              ELSE /\ ~call'.ok
                   /\ user_data' = user_data]_vars

\* C10 witness: an identifier of the other table was refused at the course
\* step, and the state is still BOOKING_COURSE with no course stored.
C10_Witness ==
    /\ call.op = "set_course"
    /\ call.arg = (* "time_morning" *) <<116, 105, 109, 101, 95, 109, 111, 114, 110, 105, 110, 103>>
    /\ ~call.ok
    /\ State = "BOOKING_COURSE"
    /\ "booking_course" \notin DOMAIN user_data


\* the sessions and results of the booking scenario run on session ud: every
\* call is applied to the session the call before it left
Scenario(ud, course_id, time_id, name, email, phone) ==
    LET r0 == start_booking(ud)
        r1 == set_course(r0.ud, course_id)
        r2 == set_time(r1.ud, time_id)
        r3 == set_name(r2.ud, name)
        r4 == set_email(r3.ud, email)
        r5 == set_phone(r4.ud, phone)
    IN  [states  |-> <<get_state(r0.ud), get_state(r1.ud), get_state(r2.ud),
                       get_state(r3.ud), get_state(r4.ud), get_state(r5.ud)>>,
         ok      |-> r1.ret /\ r2.ret /\ r3.ret[1] /\ r4.ret[1] /\ r5.ret[1],
         summary |-> get_booking_summary(r5.ud).ret]

\* the arguments of the scenario: the known courses and slots and the valid
\* names and emails of the input sets with one skip token, and scenario B's
\* course, slot, name and email with every skip token
ScenarioInputs ==
    ((CourseInputs \cap DOMAIN COURSE_NAMES) \X (TimeInputs \cap DOMAIN TIME_SLOTS)
        \X {n \in NameInputs : validate_name(n)[1]}
        \X {e \in EmailInputs : validate_email(e)[1]}
        \X {(* "skip" *) <<115, 107, 105, 112>>})
    \cup
    ({(* "book_it" *) <<98, 111, 111, 107, 95, 105, 116>>} \X {(* "time_morning" *) <<116, 105, 109, 101, 95, 109, 111, 114, 110, 105, 110, 103>>} \X {(* "Anna" *) <<65, 110, 110, 97>>} \X {(* "anna@example.com" *) <<97, 110, 110, 97, 64, 101, 120, 97, 109, 112, 108, 101, 46, 99, 111, 109>>}
        \X SkipInputs)

\* C11: start_booking, then set_course with a known course, set_time with a
\* known slot, set_name with a valid name, set_email with a valid email and
\* set_phone with a skip token, run from any session, pass through
\* BOOKING_COURSE, BOOKING_TIME, BOOKING_NAME, BOOKING_EMAIL, BOOKING_PHONE,
\* BOOKING_CONFIRM in that order, and get_booking_summary then returns the
\* labels of the chosen course and slot, the entered name and email, and
\* phone None.
C11_ScenarioEndsInCompleteSummary ==
    \A in \in ScenarioInputs :
        LET s == Scenario(user_data, in[1], in[2], in[3], in[4], in[5])
        IN  /\ s.ok
            /\ s.states = BookingSteps
            /\ s.summary = [course |-> PyStr(COURSE_NAMES[in[1]]),
                            time   |-> PyStr(TIME_SLOTS[in[2]]),
                            name   |-> PyStr(in[3]),
                            email  |-> PyStr(in[4]),
                            phone  |-> PyNone]

\* C11 witness: the summary returned at the end of scenario B: "IT English",
\* the morning slot, "Anna", "anna@example.com" and a skipped phone, in
\* state BOOKING_CONFIRM.
C11_Witness ==
    /\ call.op = "get_booking_summary"
    /\ call.ok
    /\ State = "BOOKING_CONFIRM"
    /\ get_booking_summary(user_data).ret =
           [course |-> PyStr((* "IT English" *) <<73, 84, 32, 69, 110, 103, 108, 105, 115, 104>>),
            time   |-> PyStr(TIME_SLOTS[(* "time_morning" *) <<116, 105, 109, 101, 95, 109, 111, 114, 110, 105, 110, 103>>]),
            name   |-> PyStr((* "Anna" *) <<65, 110, 110, 97>>),
            email  |-> PyStr((* "anna@example.com" *) <<97, 110, 110, 97, 64, 101, 120, 97, 109, 112, 108, 101, 46, 99, 111, 109>>),
            phone  |-> PyNone]
    /\ "booking_phone" \in DOMAIN user_data

----------------------------------------------------------------------------
(* AIService: the response cache.  self._cache is a dict from cache key to *)
(* (response, timestamp); it is modelled as the sequence of its entries in *)
(* the dict's insertion order, which is the order sorted() keeps among     *)
(* entries of equal timestamp.                                             *)

AI_CACHE_TTL == 900

CACHE_MAX_ENTRIES == 100

CACHE_EVICT_COUNT == 20

\* cache_key in self._cache
CacheHas(c, cache_key) == \E i \in 1..Len(c) : c[i].key = cache_key

CacheIndex(c, cache_key) == CHOOSE i \in 1..Len(c) : c[i].key = cache_key

\* self._cache[cache_key]
CacheGet(c, cache_key) == c[CacheIndex(c, cache_key)]

\* the entries of c without those at the positions of drop, order kept
DropIndexes(c, drop) ==
    LET keep  == (1..Len(c)) \ drop
        place == [i \in keep |-> Cardinality({j \in keep : j < i}) + 1]
    IN  [p \in 1..Cardinality(keep) |-> c[CHOOSE i \in keep : place[i] = p]]

\* del self._cache[cache_key]
CacheDel(c, cache_key) == DropIndexes(c, {CacheIndex(c, cache_key)})

\* self._cache[cache_key] = (response, timestamp): a key already present
\* keeps its place in the dict, a new key goes last
CachePut(c, cache_key, response, timestamp) ==
    LET e == [key |-> cache_key, response |-> response, timestamp |-> timestamp]
    IN  IF CacheHas(c, cache_key)
        THEN [c EXCEPT ![CacheIndex(c, cache_key)] = e]
        ELSE Append(c, e)

\* _get_cached_response comparing the age with <= instead of <
get_cached_response_ttl_inclusive(c, t, cache_key) ==
    IF CacheHas(c, cache_key) THEN
        LET e == CacheGet(c, cache_key)
        IN  IF t - e.timestamp <= AI_CACHE_TTL
            THEN [cache |-> c, ret |-> PyStr(e.response)]
            ELSE [cache |-> CacheDel(c, cache_key), ret |-> PyNone]
    ELSE [cache |-> c, ret |-> PyNone]

\* _get_cached_response removing every expired entry when the looked-up one has expired
get_cached_response_sweeps_expired(c, t, cache_key) ==
    IF CacheHas(c, cache_key) THEN
        LET e == CacheGet(c, cache_key)
        IN  IF t - e.timestamp < AI_CACHE_TTL
            THEN [cache |-> c, ret |-> PyStr(e.response)]
            ELSE [cache |-> SelectSeq(c, LAMBDA x : t - x.timestamp < AI_CACHE_TTL),
                  ret |-> PyNone]
    ELSE [cache |-> c, ret |-> PyNone]

\* AIService._get_cached_response(cache_key), time.time() returning t
get_cached_response(c, t, cache_key) ==
    IF CacheHas(c, cache_key) THEN
        LET e == CacheGet(c, cache_key)
        IN  IF t - e.timestamp < AI_CACHE_TTL
            THEN [cache |-> c, ret |-> PyStr(e.response)]
            ELSE [cache |-> CacheDel(c, cache_key), ret |-> PyNone]
    ELSE [cache |-> c, ret |-> PyNone]

\* place (from 1) of entry i in sorted(self._cache.items(), key=lambda x: x[1][1]):
\* by timestamp, entries of equal timestamp in the dict's order
SortRank(c, i) ==
    Cardinality({j \in 1..Len(c) :
                    \/ c[j].timestamp < c[i].timestamp
                    \/ c[j].timestamp = c[i].timestamp /\ j < i}) + 1

\* _cache_response removing the newest entries instead of the oldest
cache_response_evicts_newest(c, t, cache_key, response) ==
    LET c1 == CachePut(c, cache_key, response, t)
    IN  IF Len(c1) > CACHE_MAX_ENTRIES
        THEN [cache |-> DropIndexes(c1, {i \in 1..Len(c1) :
                            SortRank(c1, i) > Len(c1) - CACHE_EVICT_COUNT})]
        ELSE [cache |-> c1]

\* _cache_response removing one entry more than the batch
cache_response_evicts_one_more(c, t, cache_key, response) ==
    LET c1 == CachePut(c, cache_key, response, t)
    IN  IF Len(c1) > CACHE_MAX_ENTRIES
        THEN [cache |-> DropIndexes(c1, {i \in 1..Len(c1) :
                            SortRank(c1, i) <= CACHE_EVICT_COUNT + 1})]
        ELSE [cache |-> c1]

\* AIService._cache_response(cache_key, response), time.time() returning t
cache_response(c, t, cache_key, response) ==
    LET c1 == CachePut(c, cache_key, response, t)
    IN  IF Len(c1) > CACHE_MAX_ENTRIES
        THEN [cache |-> DropIndexes(c1, {i \in 1..Len(c1) :
                            SortRank(c1, i) <= CACHE_EVICT_COUNT})]
        ELSE [cache |-> c1]

----------------------------------------------------------------------------
(* The cache used directly: lookups and insertions in any order, at the    *)
(* instants around the expiry of an entry, on an empty cache and on caches *)
(* that earlier insertions filled to the capacity.                         *)

\* decimal digits of n >= 0, as str(n)
RECURSIVE Digits(_)
Digits(n) == IF n < 10 THEN <<48 + n>> ELSE Append(Digits(n \div 10), 48 + (n % 10))

\* key of the i-th question answered while the cache was being filled
FilledKey(i) == (* "general:q" *) <<103, 101, 110, 101, 114, 97, 108, 58, 113>> \o Digits(i)

\* the cache after n different questions were answered, two each second
FilledCache(n) ==
    [i \in 1..n |-> [key |-> FilledKey(i), response |-> (* "A1" *) <<65, 49>>, timestamp |-> i \div 2]]

\* time.time() when the last of CACHE_MAX_ENTRIES questions was answered
FilledAt == CACHE_MAX_ENTRIES \div 2

CacheSizes == {0, CACHE_MAX_ENTRIES}

\* later readings of the clock: one second short of the TTL, and the TTL
ClockInstants == {FilledAt + d : d \in {AI_CACHE_TTL - 1, AI_CACHE_TTL}}

\* a new key, and the key of the first question answered while filling (the
\* oldest entry of the full cache)
CacheKeys == { (* "general:Hi" *) <<103, 101, 110, 101, 114, 97, 108, 58, 72, 105>>, FilledKey(1) }

CacheTexts == { (* "A1" *) <<65, 49>>, (* "A2" *) <<65, 50>> }

InitCache ==
    /\ user_data = EmptyDict
    /\ appended = <<>>
    /\ call = NoCall
    /\ cache \in {FilledCache(n) : n \in CacheSizes}
    /\ now = FilledAt
    /\ ai = AiIdle
    /\ inbox = <<>>
    /\ sessions = [u \in Users |-> EmptyDict]

CallGetCachedResponse(cache_key) ==
    LET r == get_cached_response(cache, now, cache_key)
    IN  /\ cache' = r.cache
        /\ call' = [op |-> "get_cached_response", arg |-> cache_key,
                    ok |-> r.ret # PyNone,
                    msg |-> IF r.ret # PyNone THEN r.ret.val ELSE <<>>]
        /\ UNCHANGED <<user_data, appended, now, ai, inbox, sessions>>

CallCacheResponse(cache_key, response) ==
    /\ cache' = cache_response(cache, now, cache_key, response).cache
    /\ call' = [op |-> "cache_response", arg |-> cache_key, ok |-> TRUE, msg |-> response]
    /\ UNCHANGED <<user_data, appended, now, ai, inbox, sessions>>

\* time passes
Tick ==
    /\ \E t \in ClockInstants : t > now /\ now' = t
    /\ call' = [op |-> "tick", arg |-> <<>>, ok |-> TRUE, msg |-> <<>>]
    /\ UNCHANGED <<user_data, appended, cache, ai, inbox, sessions>>

NextCache ==
    \/ \E cache_key \in CacheKeys : CallGetCachedResponse(cache_key)
    \/ \E cache_key \in CacheKeys : \E response \in CacheTexts :
           CallCacheResponse(cache_key, response)
    \/ Tick

SpecCache == InitCache /\ [][NextCache]_vars

\* the (key, response, timestamp) entries of cache c
Entries(c) == {c[i] : i \in 1..Len(c)}

\* C12: a response stored at time T under key K is in the cache as (K,
\* response, T); while it is neither evicted nor overwritten no operation
\* alters it; a lookup of K at a time t with T <= t < T + TTL returns it
\* unchanged and leaves the cache alone, and a lookup at t >= T + TTL, or of
\* a key that is not stored, reports a miss; no lookup returns an entry whose
\* age is TTL or more.
C12_LiveEntryHitExpiredEntryMiss ==
    [][/\ call'.op = "cache_response" =>
              /\ CacheHas(cache', call'.arg)
              /\ CacheGet(cache', call'.arg) =
                     [key |-> call'.arg, response |-> call'.msg, timestamp |-> now]
       /\ call'.op = "get_cached_response" =>
              IF CacheHas(cache, call'.arg)
              THEN LET e == CacheGet(cache, call'.arg)
                   IN  IF e.timestamp <= now /\ now < e.timestamp + AI_CACHE_TTL
                       THEN /\ call'.ok
                            /\ call'.msg = e.response
                            /\ cache' = cache
                       ELSE /\ ~call'.ok
                            /\ ~CacheHas(cache', call'.arg)
              ELSE ~call'.ok
       /\ \A e \in Entries(cache') \ Entries(cache) :
              call'.op = "cache_response" /\ e.key = call'.arg]_vars

\* C12 witness: a lookup in the last second before the entry expires returned
\* the response stored under the key.
C12_Witness ==
    /\ call.op = "get_cached_response"
    /\ call.ok
    /\ call.arg = (* "general:Hi" *) <<103, 101, 110, 101, 114, 97, 108, 58, 72, 105>>
    /\ call.msg = (* "A2" *) <<65, 50>>
    /\ CacheHas(cache, call.arg)
    /\ now - CacheGet(cache, call.arg).timestamp = AI_CACHE_TTL - 1

\* C13: after every insertion the cache holds at most CACHE_MAX_ENTRIES
\* entries; an insertion that does not push it over the capacity removes
\* nothing; one that does removes entries, every removed entry is no newer
\* than every retained one, and the retained entries are unchanged.
C13_EvictionDropsOldest ==
    [][call'.op = "cache_response" =>
          LET put      == CachePut(cache, call'.arg, call'.msg, now)
              retained == Entries(cache')
              removed  == Entries(put) \ retained
          IN  /\ Len(cache') <= CACHE_MAX_ENTRIES
              /\ Len(put) <= CACHE_MAX_ENTRIES => cache' = put
              /\ Len(put) > CACHE_MAX_ENTRIES => removed # {}
              /\ retained \subseteq Entries(put)
              /\ Len(cache') = Len(put) - Cardinality(removed)
              /\ \A e \in removed : \A r \in retained : e.timestamp <= r.timestamp]_vars

\* C13 witness: an insertion into the full cache has removed the batch of
\* the oldest entries, the first question's among them, and kept the new one.
C13_Witness ==
    /\ call.op = "cache_response"
    /\ Len(cache) = CACHE_MAX_ENTRIES + 1 - CACHE_EVICT_COUNT
    /\ ~CacheHas(cache, FilledKey(1))
    /\ CacheHas(cache, FilledKey(CACHE_EVICT_COUNT + 1))
    /\ CacheHas(cache, call.arg)

----------------------------------------------------------------------------
(* AIService.get_response as handle_message calls it, one step for each    *)
(* stretch the event loop runs without giving up the thread.  get_response *)
(* is a plain function called from the coroutine: the provider call and    *)
(* time.sleep() block, so from dispatch to the reply the event loop runs   *)
(* nothing else, and the updates that arrive meanwhile wait in the inbox.  *)

AI_RETRY_ATTEMPTS == 3

CACHE_KEY_MAX_LEN == 100

\* the text used when the provider's message has no content
EMPTY_CONTENT_REPLY == (* "Извините, не смог сформировать ответ." *) <<1048, 1079, 1074, 1080, 1085, 1080, 1090, 1077, 44, 32, 1085, 1077, 32, 1089, 1084, 1086, 1075, 32, 1089, 1092, 1086, 1088, 1084, 1080, 1088, 1086, 1074, 1072, 1090, 1100, 32, 1086, 1090, 1074, 1077, 1090, 46>>

\* next((m["content"] for m in reversed(messages) if m["role"] == "user"), None)
LastUserMessage(messages) ==
    LET users == {i \in 1..Len(messages) : messages[i].role = "user"}
    IN  IF users = {} THEN PyNone
        ELSE PyStr(messages[CHOOSE i \in users : \A j \in users : j <= i].content)

\* the cache key cut after one character more
CacheKeyOf_cuts_later(messages, context, use_cache) ==
    IF use_cache /\ messages # <<>> THEN
        LET last_message == LastUserMessage(messages)
        IN  IF Truthy(last_message)
            THEN PyStr(context \o (* ":" *) <<58>> \o
                       Slice(last_message.val, 1,
                             Min(Len(last_message.val), CACHE_KEY_MAX_LEN + 1)))
            ELSE PyNone
    ELSE PyNone

\* the cache key computed whatever use_cache says
CacheKeyOf_ignores_use_cache(messages, context, use_cache) ==
    IF messages # <<>> THEN
        LET last_message == LastUserMessage(messages)
        IN  IF Truthy(last_message)
            THEN PyStr(context \o (* ":" *) <<58>> \o
                       Slice(last_message.val, 1,
                             Min(Len(last_message.val), CACHE_KEY_MAX_LEN)))
            ELSE PyNone
    ELSE PyNone

\* cache_key of get_response: None, or f"{context}:{last_message[:100]}"
CacheKeyOf(messages, context, use_cache) ==
    IF use_cache /\ messages # <<>> THEN
        LET last_message == LastUserMessage(messages)
        IN  IF Truthy(last_message)
            THEN PyStr(context \o (* ":" *) <<58>> \o
                       Slice(last_message.val, 1,
                             Min(Len(last_message.val), CACHE_KEY_MAX_LEN)))
            ELSE PyNone
    ELSE PyNone

\* the knowledge directory of one deployment: the text of each file, None
\* for a file that does not exist (knowledge_base.txt is the old single file)
KNOWLEDGE_DIR ==
    [company      |-> PyStr((* "SpeakFlow English: online school.\n" *) <<83, 112, 101, 97, 107, 70, 108, 111, 119, 32, 69, 110, 103, 108, 105, 115, 104, 58, 32, 111, 110, 108, 105, 110, 101, 32, 115, 99, 104, 111, 111, 108, 46, 10>>),
     courses      |-> PyNone,
     teachers     |-> PyStr((* " \n" *) <<32, 10>>),
     testimonials |-> PyNone,
     pricing      |-> PyStr((* "Trial lesson: free." *) <<84, 114, 105, 97, 108, 32, 108, 101, 115, 115, 111, 110, 58, 32, 102, 114, 101, 101, 46>>),
     faq          |-> PyNone,
     policies     |-> PyNone,
     knowledge_base |-> PyStr((* "old" *) <<111, 108, 100>>)]

knowledge_files ==
    <<"company", "courses", "teachers", "testimonials", "pricing", "faq", "policies">>

\* "\n\n".join(parts)
RECURSIVE JoinParagraphs(_)
JoinParagraphs(parts) ==
    IF parts = <<>> THEN <<>>
    ELSE IF Len(parts) = 1 THEN parts[1]
    ELSE parts[1] \o <<10, 10>> \o JoinParagraphs(Tail(parts))

\* a file that exists and whose read_text() raises
Unreadable == [type |-> "OSError"]

\* the stripped, non-empty contents of the files named, in their order; a
\* file that does not exist is passed over, one that cannot be read is
\* passed over by the except branch
RECURSIVE KnowledgeParts(_, _)
KnowledgeParts(dir, names) ==
    IF names = <<>> THEN <<>>
    ELSE LET file == dir[Head(names)]
             content == IF file \in {PyNone, Unreadable} THEN <<>> ELSE Strip(file.val)
         IN  (IF content # <<>> THEN <<content>> ELSE <<>>)
                 \o KnowledgeParts(dir, Tail(names))

\* _load_knowledge_base returning an empty text when nothing was loaded
load_knowledge_base_without_placeholder(dir) ==
    LET knowledge_parts == KnowledgeParts(dir, knowledge_files)
        with_old == IF knowledge_parts = <<>> /\ dir.knowledge_base \notin {PyNone, Unreadable}
                    THEN <<Strip(dir.knowledge_base.val)>>
                    ELSE knowledge_parts
    IN  JoinParagraphs(with_old)

\* AIService._load_knowledge_base()
load_knowledge_base(dir) ==
    LET knowledge_parts == KnowledgeParts(dir, knowledge_files)
        with_old == IF knowledge_parts = <<>> /\ dir.knowledge_base \notin {PyNone, Unreadable}
                    THEN <<Strip(dir.knowledge_base.val)>>
                    ELSE knowledge_parts
    IN  IF with_old = <<>> THEN (* "База знаний не загружена." *) <<1041, 1072, 1079, 1072, 32, 1079, 1085, 1072, 1085, 1080, 1081, 32, 1085, 1077, 32, 1079, 1072, 1075, 1088, 1091, 1078, 1077, 1085, 1072, 46>>
        ELSE JoinParagraphs(with_old)

\* the first part of base_prompt
BASE_PROMPT ==
    (* "Ты полезный AI-помощник онлайн-школы английского языка SpeakFlow English. Отвечай на вопросы ТОЛЬКО на основе предоставленной базы знаний. Если ответа нет в базе знаний, вежливо скажи, что у тебя нет этой информации, и предложи клиенту связаться с поддержкой напрямую.\nОтвечай на том же языке, на котором пишет пользователь.\nБудь дружелюбным, профессиональным и полезным.\n\n" *) <<1058, 1099, 32, 1087, 1086, 1083, 1077, 1079, 1085, 1099, 1081, 32, 65, 73, 45, 1087, 1086, 1084, 1086, 1097, 1085, 1080, 1082, 32, 1086, 1085, 1083, 1072, 1081, 1085, 45, 1096, 1082, 1086, 1083, 1099, 32, 1072, 1085, 1075, 1083, 1080, 1081, 1089, 1082, 1086, 1075, 1086, 32, 1103, 1079, 1099, 1082, 1072, 32, 83, 112, 101, 97, 107, 70, 108, 111, 119, 32, 69, 110, 103, 108, 105, 115, 104, 46, 32, 1054, 1090, 1074, 1077, 1095, 1072, 1081, 32, 1085, 1072, 32, 1074, 1086, 1087, 1088, 1086, 1089, 1099, 32, 1058, 1054, 1051, 1068, 1050, 1054, 32, 1085, 1072, 32, 1086, 1089, 1085, 1086, 1074, 1077, 32, 1087, 1088, 1077, 1076, 1086, 1089, 1090, 1072, 1074, 1083, 1077, 1085, 1085, 1086, 1081, 32, 1073, 1072, 1079, 1099, 32, 1079, 1085, 1072, 1085, 1080, 1081, 46, 32, 1045, 1089, 1083, 1080, 32, 1086, 1090, 1074, 1077, 1090, 1072, 32, 1085, 1077, 1090, 32, 1074, 32, 1073, 1072, 1079, 1077, 32, 1079, 1085, 1072, 1085, 1080, 1081, 44, 32, 1074, 1077, 1078, 1083, 1080, 1074, 1086, 32, 1089, 1082, 1072, 1078, 1080, 44, 32, 1095, 1090, 1086, 32, 1091, 32, 1090, 1077, 1073, 1103, 32, 1085, 1077, 1090, 32, 1101, 1090, 1086, 1081, 32, 1080, 1085, 1092, 1086, 1088, 1084, 1072, 1094, 1080, 1080, 44, 32, 1080, 32, 1087, 1088, 1077, 1076, 1083, 1086, 1078, 1080, 32, 1082, 1083, 1080, 1077, 1085, 1090, 1091, 32, 1089, 1074, 1103, 1079, 1072, 1090, 1100, 1089, 1103, 32, 1089, 32, 1087, 1086, 1076, 1076, 1077, 1088, 1078, 1082, 1086, 1081, 32, 1085, 1072, 1087, 1088, 1103, 1084, 1091, 1102, 46, 10, 1054, 1090, 1074, 1077, 1095, 1072, 1081, 32, 1085, 1072, 32, 1090, 1086, 1084, 32, 1078, 1077, 32, 1103, 1079, 1099, 1082, 1077, 44, 32, 1085, 1072, 32, 1082, 1086, 1090, 1086, 1088, 1086, 1084, 32, 1087, 1080, 1096, 1077, 1090, 32, 1087, 1086, 1083, 1100, 1079, 1086, 1074, 1072, 1090, 1077, 1083, 1100, 46, 10, 1041, 1091, 1076, 1100, 32, 1076, 1088, 1091, 1078, 1077, 1083, 1102, 1073, 1085, 1099, 1084, 44, 32, 1087, 1088, 1086, 1092, 1077, 1089, 1089, 1080, 1086, 1085, 1072, 1083, 1100, 1085, 1099, 1084, 32, 1080, 32, 1087, 1086, 1083, 1077, 1079, 1085, 1099, 1084, 46, 10, 10>>

\* the context-specific instructions
ContextPrompt(context) ==
    IF context = (* "booking" *) <<98, 111, 111, 107, 105, 110, 103>>
    THEN (* "Ты помогаешь пользователю записаться на пробное занятие. Будь внимательным и помогай на каждом шаге процесса бронирования.\n\n" *) <<1058, 1099, 32, 1087, 1086, 1084, 1086, 1075, 1072, 1077, 1096, 1100, 32, 1087, 1086, 1083, 1100, 1079, 1086, 1074, 1072, 1090, 1077, 1083, 1102, 32, 1079, 1072, 1087, 1080, 1089, 1072, 1090, 1100, 1089, 1103, 32, 1085, 1072, 32, 1087, 1088, 1086, 1073, 1085, 1086, 1077, 32, 1079, 1072, 1085, 1103, 1090, 1080, 1077, 46, 32, 1041, 1091, 1076, 1100, 32, 1074, 1085, 1080, 1084, 1072, 1090, 1077, 1083, 1100, 1085, 1099, 1084, 32, 1080, 32, 1087, 1086, 1084, 1086, 1075, 1072, 1081, 32, 1085, 1072, 32, 1082, 1072, 1078, 1076, 1086, 1084, 32, 1096, 1072, 1075, 1077, 32, 1087, 1088, 1086, 1094, 1077, 1089, 1089, 1072, 32, 1073, 1088, 1086, 1085, 1080, 1088, 1086, 1074, 1072, 1085, 1080, 1103, 46, 10, 10>>
    ELSE IF context = (* "faq" *) <<102, 97, 113>>
    THEN (* "Отвечай на частые вопросы клиентов, используя информацию из раздела FAQ.\n\n" *) <<1054, 1090, 1074, 1077, 1095, 1072, 1081, 32, 1085, 1072, 32, 1095, 1072, 1089, 1090, 1099, 1077, 32, 1074, 1086, 1087, 1088, 1086, 1089, 1099, 32, 1082, 1083, 1080, 1077, 1085, 1090, 1086, 1074, 44, 32, 1080, 1089, 1087, 1086, 1083, 1100, 1079, 1091, 1103, 32, 1080, 1085, 1092, 1086, 1088, 1084, 1072, 1094, 1080, 1102, 32, 1080, 1079, 32, 1088, 1072, 1079, 1076, 1077, 1083, 1072, 32, 70, 65, 81, 46, 10, 10>>
    ELSE <<>>

\* the system prompt with the context-specific instructions put last
build_system_prompt_context_last(context) ==
    BASE_PROMPT
        \o (* "=== БАЗА ЗНАНИЙ ===\n" *) <<61, 61, 61, 32, 1041, 1040, 1047, 1040, 32, 1047, 1053, 1040, 1053, 1048, 1049, 32, 61, 61, 61, 10>> \o load_knowledge_base(KNOWLEDGE_DIR)
        \o (* "\n=== КОНЕЦ БАЗЫ ЗНАНИЙ ===" *) <<10, 61, 61, 61, 32, 1050, 1054, 1053, 1045, 1062, 32, 1041, 1040, 1047, 1067, 32, 1047, 1053, 1040, 1053, 1048, 1049, 32, 61, 61, 61>> \o ContextPrompt(context)

\* AIService._build_system_prompt(context)
build_system_prompt(context) ==
    BASE_PROMPT \o ContextPrompt(context)
        \o (* "=== БАЗА ЗНАНИЙ ===\n" *) <<61, 61, 61, 32, 1041, 1040, 1047, 1040, 32, 1047, 1053, 1040, 1053, 1048, 1049, 32, 61, 61, 61, 10>> \o load_knowledge_base(KNOWLEDGE_DIR)
        \o (* "\n=== КОНЕЦ БАЗЫ ЗНАНИЙ ===" *) <<10, 61, 61, 61, 32, 1050, 1054, 1053, 1045, 1062, 32, 1041, 1040, 1047, 1067, 32, 1047, 1053, 1040, 1053, 1048, 1049, 32, 61, 61, 61>>

\* api_messages = [{"role": "system", "content": system_prompt}] + messages
\* (line 66): a new list; messages is the caller's list as it is left
PrepareMessages(messages, system_prompt) ==
    [messages     |-> messages,
     api_messages |-> <<[role |-> "system", content |-> system_prompt]>> \o messages]

\* what one self.client.chat.completions.create() call can do: answer with a
\* text, answer with no content, or raise
ProviderOutcomes ==
    { [ok |-> TRUE,  text |-> (* "A1" *) <<65, 49>>],
      [ok |-> TRUE,  text |-> <<>>],
      [ok |-> FALSE, text |-> (* "401 Unauthorized" *) <<52, 48, 49, 32, 85, 110, 97, 117, 116, 104, 111, 114, 105, 122, 101, 100>>] }

\* the texts users send: a short one, and two of 101 characters that differ
\* in the last character only
AskTexts == { (* "Hi" *) <<72, 105>>, Repeat(97, CACHE_KEY_MAX_LEN) \o (* "b" *) <<98>>,
              Repeat(97, CACHE_KEY_MAX_LEN) \o (* "c" *) <<99>> }

\* updates received in one run
MaxUpdates == 2

\* what get_response did so far: a provider call or a sleep
TraceCall(a, outcome) ==
    [kind |-> "call", ok |-> outcome.ok, text |-> outcome.text, secs |-> 0,
     request |-> a.api_messages]

TraceSleep(secs) ==
    [kind |-> "sleep", ok |-> TRUE, text |-> <<>>, secs |-> secs, request |-> <<>>]

Step(op) == call' = [op |-> op, arg |-> <<>>, ok |-> TRUE, msg |-> <<>>]

\* the application receives an update (a text message of user u)
Receive(u, text) ==
    /\ ai.served + Len(inbox) < MaxUpdates
    /\ inbox' = Append(inbox, [user |-> u, text |-> text, busy |-> ai.pc # "idle"])
    /\ Step("receive")
    /\ UNCHANGED <<user_data, appended, cache, now, ai, sessions>>

\* get_response with the user's identifier made part of the cache key
BeginResponse_keys_by_user(a, c, t, messages, context, use_cache) ==
    LET shared    == CacheKeyOf(messages, context, use_cache)
        cache_key == IF shared # PyNone
                     THEN PyStr(shared.val \o (* ":" *) <<58>> \o <<48 + a.user>>)
                     ELSE PyNone
        cached    == IF cache_key # PyNone
                     THEN get_cached_response(c, t, cache_key.val)
                     ELSE [cache |-> c, ret |-> PyNone]
        b         == [a EXCEPT !.messages = messages, !.cache_key = cache_key,
                               !.attempt = 0, !.trace = <<>>]
        prepared  == PrepareMessages(messages, build_system_prompt(context))
        p         == [b EXCEPT !.messages = prepared.messages,
                               !.api_messages = prepared.api_messages]
    IN  [cache |-> cached.cache,
         ai    |-> IF Truthy(cached.ret)
                   THEN [b EXCEPT !.pc = "reply", !.response = cached.ret.val]
                   ELSE IF AI_RETRY_ATTEMPTS > 0
                   THEN [p EXCEPT !.pc = "attempt"]
                   ELSE [p EXCEPT !.pc = "reply", !.response = get_fallback_response]]

\* get_response going to the provider without looking at the cache
BeginResponse_ignores_cache(a, c, t, messages, context, use_cache) ==
    LET cache_key == CacheKeyOf(messages, context, use_cache)
        b         == [a EXCEPT !.messages = messages, !.cache_key = cache_key,
                               !.attempt = 0, !.trace = <<>>]
        prepared  == PrepareMessages(messages, build_system_prompt(context))
        p         == [b EXCEPT !.messages = prepared.messages,
                               !.api_messages = prepared.api_messages]
    IN  [cache |-> c,
         ai    |-> IF AI_RETRY_ATTEMPTS > 0
                   THEN [p EXCEPT !.pc = "attempt"]
                   ELSE [p EXCEPT !.pc = "reply", !.response = get_fallback_response]]

\* get_response up to its first provider call (lines 47-66): the cache key,
\* the lookup and the return of a cached response, or the system prompt and
\* the request
BeginResponse(a, c, t, messages, context, use_cache) ==
    LET cache_key == CacheKeyOf(messages, context, use_cache)
        cached    == IF cache_key # PyNone
                     THEN get_cached_response(c, t, cache_key.val)
                     ELSE [cache |-> c, ret |-> PyNone]
        b         == [a EXCEPT !.messages = messages, !.cache_key = cache_key,
                               !.attempt = 0, !.trace = <<>>]
        prepared  == PrepareMessages(messages, build_system_prompt(context))
        p         == [b EXCEPT !.messages = prepared.messages,
                               !.api_messages = prepared.api_messages]
    IN  [cache |-> cached.cache,
         ai    |-> IF Truthy(cached.ret)
                   THEN [b EXCEPT !.pc = "reply", !.response = cached.ret.val]
                   ELSE IF AI_RETRY_ATTEMPTS > 0
                   THEN [p EXCEPT !.pc = "attempt"]
                   ELSE [p EXCEPT !.pc = "reply", !.response = get_fallback_response]]

\* the retry loop sleeping after its last failed attempt as well
AfterAttempt_sleeps_after_last(a, c, t, outcome) ==
    LET traced == [a EXCEPT !.trace = Append(@, TraceCall(a, outcome))]
    IN  IF outcome.ok THEN
            LET response_text == IF outcome.text # <<>> THEN outcome.text
                                 ELSE EMPTY_CONTENT_REPLY
            IN  [cache |-> IF a.cache_key # PyNone
                           THEN cache_response(c, t, a.cache_key.val, response_text).cache
                           ELSE c,
                 ai    |-> [traced EXCEPT !.pc = "reply", !.response = response_text]]
        ELSE [cache |-> c, ai |-> [traced EXCEPT !.pc = "sleep"]]

\* the retry loop showing the provider's error in place of the fallback text
AfterAttempt_shows_error(a, c, t, outcome) ==
    LET traced == [a EXCEPT !.trace = Append(@, TraceCall(a, outcome))]
    IN  IF outcome.ok THEN
            LET response_text == IF outcome.text # <<>> THEN outcome.text
                                 ELSE EMPTY_CONTENT_REPLY
            IN  [cache |-> IF a.cache_key # PyNone
                           THEN cache_response(c, t, a.cache_key.val, response_text).cache
                           ELSE c,
                 ai    |-> [traced EXCEPT !.pc = "reply", !.response = response_text]]
        ELSE IF a.attempt = AI_RETRY_ATTEMPTS - 1
        THEN [cache |-> c,
              ai    |-> [traced EXCEPT !.pc = "reply",
                                       !.response = (* "Error: " *) <<69, 114, 114, 111, 114, 58, 32>> \o outcome.text]]
        ELSE [cache |-> c, ai |-> [traced EXCEPT !.pc = "sleep"]]

\* the retry loop caching the provider's content as it came, empty or not
AfterAttempt_caches_raw_content(a, c, t, outcome) ==
    LET traced == [a EXCEPT !.trace = Append(@, TraceCall(a, outcome))]
    IN  IF outcome.ok THEN
            LET response_text == IF outcome.text # <<>> THEN outcome.text
                                 ELSE EMPTY_CONTENT_REPLY
            IN  [cache |-> IF a.cache_key # PyNone
                           THEN cache_response(c, t, a.cache_key.val, outcome.text).cache
                           ELSE c,
                 ai    |-> [traced EXCEPT !.pc = "reply", !.response = response_text]]
        ELSE IF a.attempt = AI_RETRY_ATTEMPTS - 1
        THEN [cache |-> c,
              ai    |-> [traced EXCEPT !.pc = "reply", !.response = get_fallback_response]]
        ELSE [cache |-> c, ai |-> [traced EXCEPT !.pc = "sleep"]]

\* the retry loop storing the fallback text after the last failed attempt
AfterAttempt_caches_fallback(a, c, t, outcome) ==
    LET traced == [a EXCEPT !.trace = Append(@, TraceCall(a, outcome))]
    IN  IF outcome.ok THEN
            LET response_text == IF outcome.text # <<>> THEN outcome.text
                                 ELSE EMPTY_CONTENT_REPLY
            IN  [cache |-> IF a.cache_key # PyNone
                           THEN cache_response(c, t, a.cache_key.val, response_text).cache
                           ELSE c,
                 ai    |-> [traced EXCEPT !.pc = "reply", !.response = response_text]]
        ELSE IF a.attempt = AI_RETRY_ATTEMPTS - 1
        THEN [cache |-> IF a.cache_key # PyNone
                        THEN cache_response(c, t, a.cache_key.val,
                                            get_fallback_response).cache
                        ELSE c,
              ai    |-> [traced EXCEPT !.pc = "reply", !.response = get_fallback_response]]
        ELSE [cache |-> c, ai |-> [traced EXCEPT !.pc = "sleep"]]

\* the retry loop taking the provider's content as it came, without the
\* `or` that replaces an empty one
AfterAttempt_keeps_empty_content(a, c, t, outcome) ==
    LET traced == [a EXCEPT !.trace = Append(@, TraceCall(a, outcome))]
    IN  IF outcome.ok THEN
            LET response_text == outcome.text
            IN  [cache |-> IF a.cache_key # PyNone
                           THEN cache_response(c, t, a.cache_key.val, response_text).cache
                           ELSE c,
                 ai    |-> [traced EXCEPT !.pc = "reply", !.response = response_text]]
        ELSE IF a.attempt = AI_RETRY_ATTEMPTS - 1
        THEN [cache |-> c,
              ai    |-> [traced EXCEPT !.pc = "reply", !.response = get_fallback_response]]
        ELSE [cache |-> c, ai |-> [traced EXCEPT !.pc = "sleep"]]

\* one pass of the retry loop (lines 69-106), the provider call of attempt
\* a.attempt having ended with outcome: the response is cached and returned,
\* or the fallback is returned after the last attempt, or a sleep follows
AfterAttempt(a, c, t, outcome) ==
    LET traced == [a EXCEPT !.trace = Append(@, TraceCall(a, outcome))]
    IN  IF outcome.ok THEN
            LET response_text == IF outcome.text # <<>> THEN outcome.text
                                 ELSE EMPTY_CONTENT_REPLY
            IN  [cache |-> IF a.cache_key # PyNone
                           THEN cache_response(c, t, a.cache_key.val, response_text).cache
                           ELSE c,
                 ai    |-> [traced EXCEPT !.pc = "reply", !.response = response_text]]
        ELSE IF a.attempt = AI_RETRY_ATTEMPTS - 1
        THEN [cache |-> c,
              ai    |-> [traced EXCEPT !.pc = "reply", !.response = get_fallback_response]]
        ELSE [cache |-> c, ai |-> [traced EXCEPT !.pc = "sleep"]]

\* time.sleep(2**attempt) with a constant delay
AfterSleep_constant_delay(a, t) ==
    [now |-> t + 1,
     ai  |-> [a EXCEPT !.pc = "attempt", !.attempt = @ + 1,
                       !.trace = Append(@, TraceSleep(1))]]

\* time.sleep(2**attempt) (line 109), then the next pass of the loop
AfterSleep(a, t) ==
    [now |-> t + 2 ^ a.attempt,
     ai  |-> [a EXCEPT !.pc = "attempt", !.attempt = @ + 1,
                       !.trace = Append(@, TraceSleep(2 ^ a.attempt))]]

\* handle_message reading the history before it appends the user's message
Dispatch_reads_history_first ==
    /\ ai.pc = "idle"
    /\ inbox # <<>>
    /\ LET user_id      == Head(inbox).user
           user_message == Head(inbox).text
       IN  IF user_message = <<>>
           THEN /\ ai' = [ai EXCEPT !.served = @ + 1, !.waited = Head(inbox).busy]
                /\ UNCHANGED <<cache, sessions>>
           ELSE LET s == add_message(sessions[user_id], "user", user_message).ud
                    history == get_history(sessions[user_id]).ret
                    r == BeginResponse([ai EXCEPT !.user = user_id, !.served = @ + 1,
                                                  !.waited = Head(inbox).busy],
                                       cache, now, history, (* "general" *) <<103, 101, 110, 101, 114, 97, 108>>, TRUE)
                IN  /\ sessions' = [sessions EXCEPT ![user_id] = s]
                    /\ cache' = r.cache
                    /\ ai' = r.ai
    /\ inbox' = Tail(inbox)
    /\ Step("dispatch")
    /\ UNCHANGED <<user_data, appended, now>>

\* the event loop takes the oldest update and runs handle_message on it up to
\* the first provider call of get_response, or to the return of a cached
\* response
Dispatch ==
    /\ ai.pc = "idle"
    /\ inbox # <<>>
    /\ LET user_id      == Head(inbox).user
           user_message == Head(inbox).text
       IN  IF user_message = <<>>
           THEN /\ ai' = [ai EXCEPT !.served = @ + 1, !.waited = Head(inbox).busy]
                /\ UNCHANGED <<cache, sessions>>
           ELSE LET s == add_message(sessions[user_id], "user", user_message).ud
                    history == get_history(s).ret
                    r == BeginResponse([ai EXCEPT !.user = user_id, !.served = @ + 1,
                                                  !.waited = Head(inbox).busy],
                                       cache, now, history, (* "general" *) <<103, 101, 110, 101, 114, 97, 108>>, TRUE)
                IN  /\ sessions' = [sessions EXCEPT ![user_id] = s]
                    /\ cache' = r.cache
                    /\ ai' = r.ai
    /\ inbox' = Tail(inbox)
    /\ Step("dispatch")
    /\ UNCHANGED <<user_data, appended, now>>

\* the provider call in flight ends
Attempt(outcome) ==
    /\ ai.pc = "attempt"
    /\ LET r == AfterAttempt(ai, cache, now, outcome)
       IN  /\ ai' = r.ai
           /\ cache' = r.cache
    /\ Step("attempt")
    /\ UNCHANGED <<user_data, appended, now, inbox, sessions>>

\* the backoff sleep ends
Sleep ==
    /\ ai.pc = "sleep"
    /\ LET r == AfterSleep(ai, now)
       IN  /\ ai' = r.ai
           /\ now' = r.now
    /\ Step("sleep")
    /\ UNCHANGED <<user_data, appended, cache, inbox, sessions>>

\* get_response has returned: handle_message stores the response in the
\* user's history and replies (lines 53-61)
Reply ==
    /\ ai.pc = "reply"
    /\ sessions' = [sessions EXCEPT
                       ![ai.user] = add_message(@, "assistant", ai.response).ud]
    /\ ai' = [AiIdle EXCEPT !.served = ai.served]
    /\ call' = [op |-> "reply", arg |-> <<>>, ok |-> TRUE, msg |-> ai.response]
    /\ UNCHANGED <<user_data, appended, cache, now, inbox>>

\* time passes while no handler runs
IdleTick ==
    /\ ai.pc = "idle"
    /\ Tick

NextAI ==
    \/ \E u \in Users : \E text \in AskTexts : Receive(u, text)
    \/ Dispatch
    \/ \E outcome \in ProviderOutcomes : Attempt(outcome)
    \/ Sleep
    \/ Reply
    \/ IdleTick

SpecAI == Init /\ [][NextAI]_vars

\* positions of the provider calls and of the backoff sleeps in a trace
CallsOf(trace) == {i \in 1..Len(trace) : trace[i].kind = "call"}

SleepsOf(trace) == {i \in 1..Len(trace) : trace[i].kind = "sleep"}

\* get_response has returned to handle_message
Returned == ai.pc = "reply"

\* every provider call of the running get_response failed
AllFailed == ai.trace # <<>> /\ \A i \in CallsOf(ai.trace) : ~ai.trace[i].ok

\* C14: a get_response call never makes more than R provider calls nor more
\* than R-1 backoff sleeps; when the provider failed on every attempt (no
\* cache hit), the call returns after exactly R provider calls and exactly
\* R-1 sleeps, the last step being the failed call and not a sleep, and it
\* returns the fixed fallback text.
C14_ExhaustedRetriesGiveFallback ==
    /\ Cardinality(CallsOf(ai.trace)) <= AI_RETRY_ATTEMPTS
    /\ Cardinality(SleepsOf(ai.trace)) <= AI_RETRY_ATTEMPTS - 1
    /\ ai.pc \in {"idle", "attempt", "sleep", "reply"}
    /\ (Returned /\ AllFailed) =>
           /\ Cardinality(CallsOf(ai.trace)) = AI_RETRY_ATTEMPTS
           /\ Cardinality(SleepsOf(ai.trace)) = AI_RETRY_ATTEMPTS - 1
           /\ ai.trace[Len(ai.trace)].kind = "call"
           /\ ai.response = get_fallback_response

\* C14 witness: get_response returned the fallback after the provider failed
\* on each of the R attempts.
C14_Witness ==
    /\ Returned
    /\ AllFailed
    /\ Len(ai.trace) = 2 * AI_RETRY_ATTEMPTS - 1
    /\ ai.response = get_fallback_response

\* C15: when get_response returns after a successful provider call, that
\* call is the last step of the trace; before it come k < R failed calls,
\* each followed by one sleep, the i-th sleep lasting 2^(i-1) seconds; the
\* response is the text of the successful call (the fixed apology when the
\* call succeeded with no content).
C15_BackoffBetweenFailedAttempts ==
    (Returned /\ ai.trace # <<>> /\ ai.trace[Len(ai.trace)].ok) =>
        LET k == (Len(ai.trace) - 1) \div 2
            last == ai.trace[Len(ai.trace)]
        IN  /\ Len(ai.trace) = 2 * k + 1
            /\ k < AI_RETRY_ATTEMPTS
            /\ last.kind = "call"
            /\ \A i \in 1..k :
                   /\ ai.trace[2 * i - 1].kind = "call"
                   /\ ~ai.trace[2 * i - 1].ok
                   /\ ai.trace[2 * i].kind = "sleep"
                   /\ ai.trace[2 * i].secs = 2 ^ (i - 1)
            /\ ai.response = IF last.text # <<>> THEN last.text ELSE EMPTY_CONTENT_REPLY

\* C15 witness: two failures, sleeps of 1 and 2 seconds, then the third call
\* succeeded and its text was returned.
C15_Witness ==
    /\ Returned
    /\ Len(ai.trace) = 5
    /\ ~ai.trace[1].ok
    /\ ai.trace[2].secs = 1
    /\ ~ai.trace[3].ok
    /\ ai.trace[4].secs = 2
    /\ ai.trace[5].ok
    /\ ai.trace[5].text = (* "A1" *) <<65, 49>>
    /\ ai.response = (* "A1" *) <<65, 49>>

\* the first CACHE_KEY_MAX_LEN characters of a text
Truncated(text) == SubSeq(text, 1, Min(Len(text), CACHE_KEY_MAX_LEN))

\* cache c holds, at time t, an entry under key that has not expired
LiveEntry(c, t, key) ==
    CacheHas(c, key) /\ t - CacheGet(c, key).timestamp < AI_CACHE_TTL

\* C16: when handle_message calls get_response (use_cache true) and the
\* cache holds a live entry under the key of the user's message, the call
\* returns that entry's text without a provider call and without a sleep, no
\* time passes, and neither the cache nor the history it was given changes.
C16_CacheHitTouchesNothing ==
    [][(/\ call'.op = "dispatch"
        /\ Head(inbox).text # <<>>
        /\ LiveEntry(cache, now, (* "general:" *) <<103, 101, 110, 101, 114, 97, 108, 58>> \o Truncated(Head(inbox).text))) =>
          LET user_id == Head(inbox).user
              key     == (* "general:" *) <<103, 101, 110, 101, 114, 97, 108, 58>> \o Truncated(Head(inbox).text)
              given   == get_history(add_message(sessions[user_id], "user",
                                                 Head(inbox).text).ud).ret
          IN  /\ ai'.pc = "reply"
              /\ ai'.response = CacheGet(cache, key).response
              /\ ai'.trace = <<>>
              /\ now' = now
              /\ cache' = cache
              /\ ai'.messages = given
              /\ get_history(sessions'[user_id]).ret = given]_vars

\* C16 witness: the second user's message was answered from the cache: no
\* provider call, the entry still in the cache.
C16_Witness ==
    /\ call.op = "dispatch"
    /\ Returned
    /\ ai.user = 2
    /\ ai.trace = <<>>
    /\ ai.cache_key = PyStr((* "general:Hi" *) <<103, 101, 110, 101, 114, 97, 108, 58, 72, 105>>)
    /\ LiveEntry(cache, now, (* "general:Hi" *) <<103, 101, 110, 101, 114, 97, 108, 58, 72, 105>>)
    /\ ai.response = CacheGet(cache, (* "general:Hi" *) <<103, 101, 110, 101, 114, 97, 108, 58, 72, 105>>).response
    /\ get_history(sessions[2]).ret = <<[role |-> "user", content |-> (* "Hi" *) <<72, 105>>]>>

\* C17: once a get_response call (use_cache true) has succeeded at the
\* provider, a second call with the same context tag and a last user message
\* with the same first 100 characters, made at any time before the TTL has
\* elapsed, returns the identical text without a provider call.
C17_SecondCallServedFromCache ==
    [][(/\ call'.op = "attempt"
        /\ ai'.pc = "reply"
        /\ ai'.trace[Len(ai'.trace)].ok) =>
          LET asked == LastUserMessage(ai.messages).val
          IN  \A text \in AskTexts : \A t \in {now, now + AI_CACHE_TTL - 1} :
                  Truncated(text) = Truncated(asked) =>
                      LET second == BeginResponse(AiIdle, cache', t,
                                        <<[role |-> "user", content |-> text]>>,
                                        (* "general" *) <<103, 101, 110, 101, 114, 97, 108>>, TRUE)
                      IN  /\ second.ai.pc = "reply"
                          /\ second.ai.trace = <<>>
                          /\ second.ai.response = ai'.response
                          /\ second.cache = cache']_vars

\* C17 witness: user 1 asked a question of 101 characters and the provider
\* answered; user 2 asked one that differs in the 101st character only and
\* got the same text from the cache.
C17_Witness ==
    /\ call.op = "dispatch"
    /\ Returned
    /\ ai.user = 2
    /\ ai.trace = <<>>
    /\ LastUserMessage(ai.messages).val = Repeat(97, CACHE_KEY_MAX_LEN) \o (* "c" *) <<99>>
    /\ get_history(sessions[1]).ret =
           <<[role |-> "user", content |-> Repeat(97, CACHE_KEY_MAX_LEN) \o (* "b" *) <<98>>],
             [role |-> "assistant", content |-> ai.response]>>

\* text sub occurs in text s
Contains(s, sub) ==
    \E i \in 1..(Len(s) - Len(sub) + 1) : SubSeq(s, i, i + Len(sub) - 1) = sub

\* C18: whatever the provider does on each attempt (a text, no content, an
\* error), get_response returns a non-empty text; after the attempts are
\* exhausted the text is the fixed fallback message, which contains none of
\* the provider's error texts; the reply shown to the user is never empty.
C18_AlwaysDisplayableText ==
    /\ Returned => ai.response # <<>>
    /\ (Returned /\ AllFailed) =>
           /\ ai.response = get_fallback_response
           /\ \A i \in CallsOf(ai.trace) : ~Contains(ai.response, ai.trace[i].text)
    /\ call.op = "reply" => call.msg # <<>>

\* C18 witness: the provider raised, then answered with no content, and the
\* fixed apology was returned.
C18_Witness ==
    /\ Returned
    /\ Len(ai.trace) = 3
    /\ ~ai.trace[1].ok
    /\ ai.trace[3].ok
    /\ ai.trace[3].text = <<>>
    /\ ai.response = EMPTY_CONTENT_REPLY

C20_OtherUsersNotBlocked ==
    (/\ ai.pc \in {"attempt", "sleep"}
     /\ inbox # <<>>
     /\ Head(inbox).user # ai.user) => ENABLED Dispatch

----------------------------------------------------------------------------
(* Several users.  Every operation of ConversationManager and of           *)
(* BookingManager reads and writes context.user_data, the dictionary the   *)
(* application keeps for the user of the update being handled.  Here the   *)
(* operations are called for either user in any order.                     *)

\* context.user_data written for the wrong users: one dictionary for all
SetContextUserData_shared(store, user_id, ud) == [u \in DOMAIN store |-> ud]

\* the store after the handler of user_id's update left ud in
\* context.user_data
SetContextUserData(store, user_id, ud) == [store EXCEPT ![user_id] = ud]

\* what the two users send in this specification
UserTexts == { (* "Hi" *) <<72, 105>> }
UserCourses == { (* "book_it" *) <<98, 111, 111, 107, 95, 105, 116>>, (* "book_c1" *) <<98, 111, 111, 107, 95, 99, 49>> }
UserTimes == { (* "time_morning" *) <<116, 105, 109, 101, 95, 109, 111, 114, 110, 105, 110, 103>> }
UserNames == { (* "Anna" *) <<65, 110, 110, 97>>, (* "A" *) <<65>> }
UserEmails == { (* "anna@example.com" *) <<97, 110, 110, 97, 64, 101, 120, 97, 109, 112, 108, 101, 46, 99, 111, 109>> }
UserPhones == { (* "skip" *) <<115, 107, 105, 112>>, (* "+79001234567" *) <<43, 55, 57, 48, 48, 49, 50, 51, 52, 53, 54, 55>> }
UserStates == { "BOOKING_CONFIRM", "AI_CHAT" }

\* the operations one run calls, over both users
MaxSessionOps == 4

\* one operation called with the context of user_id; r is what it returned
\* (ai.served counts the calls made so far)
SessionOp(user_id, op, arg, r) ==
    /\ ai.served < MaxSessionOps
    /\ sessions' = SetContextUserData(sessions, user_id, r.ud)
    /\ call' = [op |-> op, arg |-> arg, ok |-> TRUE, msg |-> <<>>, user |-> user_id]
    /\ ai' = [ai EXCEPT !.served = @ + 1]
    /\ UNCHANGED <<user_data, appended, cache, now, inbox>>

UserAddMessage(u, text) == SessionOp(u, "add_message", text, add_message(sessions[u], "user", text))
UserClearHistory(u) == SessionOp(u, "clear_history", <<>>, clear_history(sessions[u]))
UserSetState(u, state) == SessionOp(u, "set_state", <<>>, set_state(sessions[u], state))
UserResetState(u) == SessionOp(u, "reset_state", <<>>, reset_state(sessions[u]))
UserClearBookingData(u) == SessionOp(u, "clear_booking_data", <<>>, clear_booking_data(sessions[u]))
UserStartBooking(u) == SessionOp(u, "start_booking", <<>>, start_booking(sessions[u]))
UserCancelBooking(u) == SessionOp(u, "cancel_booking", <<>>, cancel_booking(sessions[u]))
UserSetCourse(u, course_id) == SessionOp(u, "set_course", course_id, set_course(sessions[u], course_id))
UserSetTime(u, time_id) == SessionOp(u, "set_time", time_id, set_time(sessions[u], time_id))
UserSetName(u, name) == SessionOp(u, "set_name", name, set_name(sessions[u], name))
UserSetEmail(u, email) == SessionOp(u, "set_email", email, set_email(sessions[u], email))
UserSetPhone(u, phone) == SessionOp(u, "set_phone", phone, set_phone(sessions[u], phone))
UserConfirmBooking(u) == SessionOp(u, "confirm_booking", <<>>, confirm_booking(sessions[u]))

NextUsers ==
    \E u \in Users :
        \/ \E text \in UserTexts : UserAddMessage(u, text)
        \/ UserClearHistory(u)
        \/ \E state \in UserStates : UserSetState(u, state)
        \/ UserResetState(u)
        \/ UserClearBookingData(u)
        \/ UserStartBooking(u)
        \/ UserCancelBooking(u)
        \/ \E course_id \in UserCourses : UserSetCourse(u, course_id)
        \/ \E time_id \in UserTimes : UserSetTime(u, time_id)
        \/ \E name \in UserNames : UserSetName(u, name)
        \/ \E email \in UserEmails : UserSetEmail(u, email)
        \/ \E phone \in UserPhones : UserSetPhone(u, phone)
        \/ UserConfirmBooking(u)

SpecUsers == Init /\ [][NextUsers]_vars

\* C21: whatever session operation runs for one user, and in whatever order
\* the operations of the two users are interleaved, the history, the
\* conversation state and the booking fields (the whole dictionary) of
\* every other user stay as they were.
C21_OtherUsersUntouched ==
    [][\A b \in Users : b # call'.user => sessions'[b] = sessions[b]]_vars

\* C21 witness: user 2 holds a history, a booking state and booking fields,
\* and user 1 has just cancelled a booking of its own.
C21_Witness ==
    /\ call.op = "cancel_booking"
    /\ call.user = 1
    /\ ai.served = MaxSessionOps
    /\ FieldsAbsent(sessions[1])
    /\ get_history(sessions[2]).ret # <<>>
    /\ get_state(sessions[2]) = "BOOKING_EMAIL"
    /\ Populated(sessions[2], "booking_name")

----------------------------------------------------------------------------
(* The stored conversation state.  get_state decodes whatever value is     *)
(* stored under "conversation_state"; here the session starts with any     *)
(* stored value, recognised or not, and get_state, set_state and           *)
(* reset_state are called in any order.                                    *)

\* stored values that are the value of no ConversationState member (a
\* member name, another case, a prefix, the empty string, a trailing blank)
UnknownStateValues == { "IDLE", "Idle", "booking", "", "idle ", "chat" }

StoredStateValues ==
    {ConversationState[m] : m \in DOMAIN ConversationState} \cup UnknownStateValues

\* sessions that differ in everything but the stored state
BaseSessions ==
    { EmptyDict,
      add_message(EmptyDict, "user", (* "Hi" *) <<72, 105>>).ud,
      set_user_data(EmptyDict, "booking_course", PyStr((* "IT English" *) <<73, 84, 32, 69, 110, 103, 108, 105, 115, 104>>)).ud,
      set_user_data(add_message(EmptyDict, "user", (* "Hi" *) <<72, 105>>).ud,
                    "booking_name", PyStr((* "Anna" *) <<65, 110, 110, 97>>)).ud }

StoredSessions ==
    BaseSessions \cup
    { DictSet(base, "conversation_state", v) :
          base \in BaseSessions, v \in StoredStateValues }

InitState ==
    /\ user_data \in StoredSessions
    /\ appended = <<>>
    /\ call = NoCall
    /\ InitService

\* ConversationManager.get_state(context); ret is the member returned
StateGet ==
    /\ call' = [op |-> "get_state", arg |-> <<>>, ok |-> TRUE, msg |-> <<>>,
                ret |-> get_state(user_data)]
    /\ UNCHANGED <<user_data, appended>>
    /\ UNCHANGED aivars

\* ConversationManager.set_state(context, state)
StateSet(state) ==
    /\ user_data' = set_state(user_data, state).ud
    /\ call' = [op |-> "set_state", arg |-> <<>>, ok |-> TRUE, msg |-> <<>>,
                ret |-> state]
    /\ UNCHANGED appended
    /\ UNCHANGED aivars

\* ConversationManager.reset_state(context)
StateReset ==
    /\ user_data' = reset_state(user_data).ud
    /\ call' = [op |-> "reset_state", arg |-> <<>>, ok |-> TRUE, msg |-> <<>>,
                ret |-> "IDLE"]
    /\ UNCHANGED appended
    /\ UNCHANGED aivars

NextState ==
    \/ StateGet
    \/ \E state \in DOMAIN ConversationState : StateSet(state)
    \/ StateReset

SpecState == InitState /\ [][NextState]_vars

\* the stored value is the value of some member
Recognised(ud) ==
    /\ "conversation_state" \in DOMAIN ud
    /\ \E m \in DOMAIN ConversationState : ConversationState[m] = ud["conversation_state"]

\* C22: get_state always returns a member and writes nothing; it returns
\* IDLE when no state is stored or the stored value is the value of no
\* member, and the member whose value is stored otherwise; after
\* set_state(s), for every member s, get_state returns s.
C22_GetStateDecodesDefensively ==
    [][/\ call'.op = "get_state" =>
              /\ user_data' = user_data
              /\ call'.ret \in DOMAIN ConversationState
              /\ ~Recognised(user_data) => call'.ret = "IDLE"
              /\ Recognised(user_data) =>
                     ConversationState[call'.ret] = user_data["conversation_state"]
       /\ (call'.op = "get_state" /\ call.op \in {"set_state", "reset_state"}) =>
              call'.ret = call.ret
       /\ call'.op \in {"set_state", "reset_state"} =>
              \A s \in DOMAIN ConversationState :
                  get_state(set_state(user_data', s).ud) = s]_vars

\* C22 witness: get_state has returned IDLE for a session whose stored value
\* is the member name "IDLE", not a member value.
C22_Witness ==
    /\ call.op = "get_state"
    /\ call.ret = "IDLE"
    /\ "conversation_state" \in DOMAIN user_data
    /\ user_data["conversation_state"] = "IDLE"
    /\ "history" \in DOMAIN user_data

\* C23: after the handler of /start, whatever the session held before (any
\* conversation state, any history, any booking fields), the history is
\* empty and the conversation state is IDLE.
C23_StartLeavesEmptyHistoryAndIdle ==
    call.op = "start_command" =>
        /\ get_history(user_data).ret = <<>>
        /\ "conversation_state" \in DOMAIN user_data
        /\ user_data["conversation_state"] = ConversationState.IDLE
        /\ State = "IDLE"

\* C23 witness: /start has just been handled in a session that was in a
\* booking (the course it had chosen is still stored).
C23_Witness ==
    /\ call.op = "start_command"
    /\ History = <<>>
    /\ State = "IDLE"
    /\ Populated(user_data, "booking_course")

----------------------------------------------------------------------------
(* split_long_message called directly, with texts made of a letter, a      *)
(* blank and a line feed, a small max_length, and a text of one paragraph  *)
(* one character longer than the default max_length.                       *)

\* the longest text of the enumerated ones
MaxSplitLen == 6

SplitTexts ==
    UNION {[1..n -> {97, 32, 10}] : n \in 0..MaxSplitLen}
        \cup {Repeat(97, MAX_MESSAGE_LENGTH + 1)}

SplitLimits == {4, MAX_MESSAGE_LENGTH}

CallSplitLongMessage(text, max_length) ==
    /\ call.op = "none"
    /\ call' = [op |-> "split_long_message", arg |-> text, ok |-> TRUE,
                msg |-> <<>>, max_length |-> max_length,
                ret |-> split_long_message(text, max_length)]
    /\ UNCHANGED <<user_data, appended>>
    /\ UNCHANGED aivars

NextSplit == \E text \in SplitTexts : \E max_length \in SplitLimits :
                 CallSplitLongMessage(text, max_length)

SpecSplit == Init /\ [][NextSplit]_vars

\* C25 (as claimed): no part split_long_message returns is longer than
\* max_length, whatever the text, a single paragraph longer than
\* max_length included.
C25_NoPartLongerThanLimit ==
    call.op = "split_long_message" =>
        \A i \in 1..Len(call.ret) : Len(call.ret[i]) <= call.max_length

\* the turn just handled failed: a name, an email or a phone was rejected,
\* the answer to a chat message is the fallback of an exhausted call, or a
\* booking button carried an identifier that is in neither table
FailingTurn ==
    \/ call.op = "handle_booking_input" /\ ~call.ok
    \/ call.op = "handle_message" /\ call.msg = get_fallback_response
    \/ /\ call.op = "button_callback"
       /\ \/ StartsWith(call.arg, (* "book_" *) <<98, 111, 111, 107, 95>>) /\ call.arg \notin DOMAIN COURSE_NAMES
          \/ StartsWith(call.arg, (* "time_" *) <<116, 105, 109, 101, 95>>) /\ call.arg \notin DOMAIN TIME_SLOTS

\* C24 (as claimed): every failing turn ends with at least one text sent to
\* the user and a session whose state decodes; a rejected input is answered
\* with the validator's reason, an exhausted call with the fallback.
C24_FailingTurnIsAnswered ==
    FailingTurn =>
        /\ call.sent # <<>>
        /\ \A i \in 1..Len(call.sent) : call.sent[i] # <<>>
        /\ State \in DOMAIN ConversationState
        /\ call.op = "handle_booking_input" => Contains(call.sent[1], call.msg)
        /\ call.op = "handle_message" => call.sent = <<get_fallback_response>>

----------------------------------------------------------------------------
(* AIService.get_response called directly: any history, any context, with *)
(* and without the cache, for either user, one call after the other on one *)
(* service (one cache).                                                    *)

\* get_response calls in one run
MaxResponseCalls == 2

Msg(role, content) == [role |-> role, content |-> content]

\* the histories passed: empty; without a user message; one question; the
\* same question after an earlier exchange; the question followed by an
\* answer; two questions that differ after the 100th character only, one of
\* them after an earlier exchange; a user message without content
MessageLists ==
    { <<>>,
      <<Msg("assistant", (* "A1" *) <<65, 49>>)>>,
      <<Msg("user", (* "Hi" *) <<72, 105>>)>>,
      <<Msg("user", (* "Q" *) <<81>>), Msg("assistant", (* "A2" *) <<65, 50>>), Msg("user", (* "Hi" *) <<72, 105>>)>>,
      <<Msg("user", (* "Hi" *) <<72, 105>>), Msg("assistant", (* "A2" *) <<65, 50>>)>>,
      <<Msg("user", Repeat(97, CACHE_KEY_MAX_LEN) \o (* "b" *) <<98>>)>>,
      <<Msg("user", (* "Q" *) <<81>>), Msg("assistant", (* "A2" *) <<65, 50>>),
        Msg("user", Repeat(97, CACHE_KEY_MAX_LEN) \o (* "c" *) <<99>>)>>,
      <<Msg("user", <<>>)>> }

Contexts == { (* "general" *) <<103, 101, 110, 101, 114, 97, 108>>, (* "booking" *) <<98, 111, 111, 107, 105, 110, 103>>, (* "faq" *) <<102, 97, 113>> }

\* get_response(messages, user_id, context, use_cache) up to its first
\* provider call or its return of a cached response
ResponseCall(messages, user_id, context, use_cache) ==
    /\ ai.pc = "idle"
    /\ ai.served < MaxResponseCalls
    /\ LET r == BeginResponse([ai EXCEPT !.user = user_id, !.served = @ + 1],
                              cache, now, messages, context, use_cache)
       IN  /\ cache' = r.cache
           /\ ai' = r.ai
    /\ call' = [op |-> "get_response", arg |-> messages, ok |-> TRUE, msg |-> <<>>,
                user_id |-> user_id, context |-> context, use_cache |-> use_cache,
                cache |-> cache, now |-> now,
                prev |-> IF call.op = "returned"
                         THEN [arg |-> call.arg, user_id |-> call.user_id]
                         ELSE [arg |-> <<>>, user_id |-> 0]]
    /\ UNCHANGED <<user_data, appended, now, inbox, sessions>>

\* the provider call in flight ends
ResponseAttempt(outcome) ==
    /\ call.op = "get_response"
    /\ ai.pc = "attempt"
    /\ LET r == AfterAttempt(ai, cache, now, outcome)
       IN  /\ ai' = r.ai
           /\ cache' = r.cache
    /\ UNCHANGED <<user_data, appended, call, now, inbox, sessions>>

\* the backoff sleep ends
ResponseSleep ==
    /\ call.op = "get_response"
    /\ ai.pc = "sleep"
    /\ LET r == AfterSleep(ai, now)
       IN  /\ ai' = r.ai
           /\ now' = r.now
    /\ UNCHANGED <<user_data, appended, call, cache, inbox, sessions>>

\* get_response returns ai.response to its caller
ResponseReturn ==
    /\ call.op = "get_response"
    /\ ai.pc = "reply"
    /\ ai' = [AiIdle EXCEPT !.served = ai.served]
    /\ call' = [op |-> "returned", arg |-> call.arg, ok |-> TRUE, msg |-> ai.response,
                user_id |-> call.user_id]
    /\ UNCHANGED <<user_data, appended, cache, now, inbox, sessions>>

NextResponse ==
    \/ \E messages \in MessageLists : \E user_id \in Users :
           \E context \in Contexts : \E use_cache \in BOOLEAN :
               ResponseCall(messages, user_id, context, use_cache)
    \/ \E outcome \in ProviderOutcomes : ResponseAttempt(outcome)
    \/ ResponseSleep
    \/ ResponseReturn
    \/ IdleTick

SpecResponse == Init /\ [][NextResponse]_vars

\* a get_response call is running or is about to return
InResponse == call.op = "get_response"

\* C26: every request get_response sends to the provider is one system
\* message (the preamble, the instructions of the context if it has any, the
\* knowledge base between its two markers) followed by the history as it was
\* given, nothing dropped, added or reordered; every attempt of one call
\* sends the same request; and the list the caller passed is as it was.
C26_RequestIsSystemPromptThenHistory ==
    InResponse =>
        /\ ai.messages = call.arg
        /\ \A i \in CallsOf(ai.trace) :
               LET request == ai.trace[i].request
               IN  /\ Len(request) = Len(call.arg) + 1
                   /\ request[1].role = "system"
                   /\ request[1].content =
                          BASE_PROMPT \o ContextPrompt(call.context)
                              \o (* "=== БАЗА ЗНАНИЙ ===\n" *) <<61, 61, 61, 32, 1041, 1040, 1047, 1040, 32, 1047, 1053, 1040, 1053, 1048, 1049, 32, 61, 61, 61, 10>>
                              \o (* "SpeakFlow English: online school.\n\nTrial lesson: free." *) <<83, 112, 101, 97, 107, 70, 108, 111, 119, 32, 69, 110, 103, 108, 105, 115, 104, 58, 32, 111, 110, 108, 105, 110, 101, 32, 115, 99, 104, 111, 111, 108, 46, 10, 10, 84, 114, 105, 97, 108, 32, 108, 101, 115, 115, 111, 110, 58, 32, 102, 114, 101, 101, 46>>
                              \o (* "\n=== КОНЕЦ БАЗЫ ЗНАНИЙ ===" *) <<10, 61, 61, 61, 32, 1050, 1054, 1053, 1045, 1062, 32, 1041, 1040, 1047, 1067, 32, 1047, 1053, 1040, 1053, 1048, 1049, 32, 61, 61, 61>>
                   /\ \A k \in 1..Len(call.arg) : request[k + 1] = call.arg[k]
                   /\ request = ai.trace[1].request
        /\ ai.pc = "attempt" => ai.api_messages[1].role = "system"

\* C26 witness: the third attempt of a call in the booking context, for a
\* history of three messages, has been made.
C26_Witness ==
    /\ InResponse
    /\ call.context = (* "booking" *) <<98, 111, 111, 107, 105, 110, 103>>
    /\ Len(call.arg) = 3
    /\ Cardinality(CallsOf(ai.trace)) = AI_RETRY_ATTEMPTS
    /\ Returned

\* the call was made without the cache, or with a history that is empty or
\* holds no message of the user
Uncached ==
    \/ ~call.use_cache
    \/ call.arg = <<>>
    \/ \A i \in 1..Len(call.arg) : call.arg[i].role # "user"

\* C27: a get_response call made with use_cache false, with an empty
\* history or with a history without a user message never looks into the
\* cache and never stores into it: at every point of the call the cache is
\* what it was before the call, and the call does not return before it has
\* called the provider, a live entry for the same message or not.
C27_UncachedCallLeavesCacheAlone ==
    (InResponse /\ Uncached) =>
        /\ cache = call.cache
        /\ ai.cache_key = PyNone
        /\ Returned => CallsOf(ai.trace) # {}

\* C27 witness: a call without the cache has returned the provider's text
\* while the cache holds a live entry, with another text, for its message.
C27_Witness ==
    /\ InResponse
    /\ Returned
    /\ ~call.use_cache
    /\ ai.response = (* "A1" *) <<65, 49>>
    /\ LET key == CacheKeyOf(call.arg, call.context, TRUE)
       IN  /\ key # PyNone
           /\ LiveEntry(cache, now, key.val)
           /\ CacheGet(cache, key.val).response = EMPTY_CONTENT_REPLY

\* the two histories have a most recent user message, and these agree on
\* their first 100 characters
SameQuestion(m1, m2) ==
    /\ Truthy(LastUserMessage(m1))
    /\ Truthy(LastUserMessage(m2))
    /\ Truncated(LastUserMessage(m1).val) = Truncated(LastUserMessage(m2).val)

\* the pairs of different histories passed that ask the same question
SameQuestionPairs ==
    {pair \in MessageLists \X MessageLists :
        pair[1] # pair[2] /\ SameQuestion(pair[1], pair[2])}

\* C28: whatever the cache holds, two get_response calls with the cache on,
\* the same context and histories whose most recent user messages agree on
\* their first 100 characters are served alike, whoever the users are and
\* whatever else the histories hold: both from the cache with the same text,
\* or both by the provider; and the text a call is served from the cache is
\* the live entry stored under the context and those 100 characters.
C28_CachedAnswerDependsOnKeyOnly ==
    /\ (ai.pc = "idle" /\ ai.served < MaxResponseCalls) =>
           \A context \in Contexts : \A pair \in SameQuestionPairs :
               LET r1 == BeginResponse([ai EXCEPT !.user = 1], cache, now,
                                       pair[1], context, TRUE)
                   r2 == BeginResponse([ai EXCEPT !.user = 2], cache, now,
                                       pair[2], context, TRUE)
               IN  /\ (r1.ai.pc = "reply") = (r2.ai.pc = "reply")
                   /\ r1.ai.pc = "reply" => r1.ai.response = r2.ai.response
                   /\ r1.cache = r2.cache
    /\ (InResponse /\ call.use_cache /\ Truthy(LastUserMessage(call.arg))) =>
           LET key == call.context \o (* ":" *) <<58>> \o Truncated(LastUserMessage(call.arg).val)
           IN  LiveEntry(call.cache, call.now, key) =>
                   /\ Returned
                   /\ ai.trace = <<>>
                   /\ ai.response = CacheGet(call.cache, key).response

\* C28 witness: user 2, asking after an earlier exchange a question of 101
\* characters, is served from the cache the answer given to user 1, who had
\* asked a question that differs from it in the 101st character.
C28_Witness ==
    /\ InResponse
    /\ Returned
    /\ ai.trace = <<>>
    /\ ai.response = (* "A1" *) <<65, 49>>
    /\ call.user_id = 2
    /\ call.prev.user_id = 1
    /\ Len(call.arg) = 3
    /\ Len(call.prev.arg) = 1
    /\ LastUserMessage(call.arg) # LastUserMessage(call.prev.arg)
    /\ SameQuestion(call.arg, call.prev.arg)

\* ---------------------------------------------------------------------------
\* Lazy expiry in _get_cached_response
\* ---------------------------------------------------------------------------

\* the entry has outlived the time to live at the instant t
Expired(e, t) == t - e.timestamp >= AI_CACHE_TTL

C30_EvictionBatchSparesInserted ==
    [][call'.op = "cache_response" =>
          LET put      == CachePut(cache, call'.arg, call'.msg, now)
              removed  == Entries(put) \ Entries(cache')
              inserted == [key |-> call'.arg, response |-> call'.msg, timestamp |-> now]
          IN  /\ Entries(cache') \subseteq Entries(put)
              /\ Len(put) <= CACHE_MAX_ENTRIES => cache' = put
              /\ Len(put) > CACHE_MAX_ENTRIES =>
                    /\ Cardinality(removed) = CACHE_EVICT_COUNT
                    /\ Len(cache') = Len(put) - CACHE_EVICT_COUNT
              /\ (\A e \in Entries(cache) : e.timestamp <= now) =>
                    inserted \in Entries(cache')]_vars

\* an insertion has evicted a batch at an instant that a stored entry shares:
\* the entry just inserted is the last one stored and the entry of the same
\* instant is retained with it
C30_Witness ==
    /\ call.op = "cache_response"
    /\ Len(cache) = CACHE_MAX_ENTRIES + 1 - CACHE_EVICT_COUNT
    /\ cache[Len(cache)] = [key |-> call.arg, response |-> call.msg, timestamp |-> now]
    /\ \E i \in 1..(Len(cache) - 1) : cache[i].timestamp = now

\* ---------------------------------------------------------------------------
\* The fallback text and the cache
\* ---------------------------------------------------------------------------

\* the cache as the initial lookup of the running call left it
AfterLookup ==
    LET key == CacheKeyOf(call.arg, call.context, call.use_cache)
    IN  IF key # PyNone
        THEN get_cached_response(call.cache, call.now, key.val).cache
        ELSE call.cache

\* C31: while and after every provider attempt of a get_response call fails,
\* the cache is what the initial lookup of the call left; the fallback text
\* is in no cache entry and no call is served it from the cache; and the
\* same request made right after the failed call goes to the provider again.
C31_FallbackIsNeverCached ==
    /\ \A e \in Entries(cache) : e.response # get_fallback_response
    /\ (InResponse /\ AllFailed) => cache = AfterLookup
    /\ (InResponse /\ Returned /\ ai.trace = <<>>) =>
           ai.response # get_fallback_response
    /\ (InResponse /\ Returned /\ AllFailed) =>
           /\ ai.response = get_fallback_response
           /\ BeginResponse([AiIdle EXCEPT !.user = call.user_id], cache, now,
                            call.arg, call.context, call.use_cache).ai.pc = "attempt"

\* a call with the cache on, whose lookup removed the expired entry of its
\* question, has returned the fallback after its last attempt failed
C31_Witness ==
    /\ InResponse
    /\ Returned
    /\ AllFailed
    /\ call.use_cache
    /\ Cardinality(CallsOf(ai.trace)) = AI_RETRY_ATTEMPTS
    /\ ai.cache_key # PyNone
    /\ CacheHas(call.cache, ai.cache_key.val)
    /\ ~CacheHas(cache, ai.cache_key.val)

\* ---------------------------------------------------------------------------
\* Stored texts and the truthiness test of the lookup
\* ---------------------------------------------------------------------------

\* C32: every text stored in the cache is non-empty, the entry stored for a
\* provider answer without content holding the fixed apology; so the lookup
\* of a live entry gives a value that get_response's `if cached:` accepts,
\* and the value is the stored text.
C32_StoredTextsAreTruthy ==
    /\ \A e \in Entries(cache) : e.response # <<>>
    /\ \A e \in Entries(cache) :
           now - e.timestamp < AI_CACHE_TTL =>
               LET cached == get_cached_response(cache, now, e.key).ret
               IN  Truthy(cached) /\ cached.val = e.response
    /\ (/\ Returned
        /\ ai.trace # <<>>
        /\ ai.trace[Len(ai.trace)].ok
        /\ ai.trace[Len(ai.trace)].text = <<>>
        /\ ai.cache_key # PyNone) =>
           /\ CacheHas(cache, ai.cache_key.val)
           /\ CacheGet(cache, ai.cache_key.val).response = EMPTY_CONTENT_REPLY

\* the provider answered the first user without content; the second user,
\* asking the same, has been served the stored apology from the cache
C32_Witness ==
    /\ call.op = "dispatch"
    /\ Returned
    /\ ai.trace = <<>>
    /\ ai.user = 2
    /\ ai.response = EMPTY_CONTENT_REPLY
    /\ ai.cache_key # PyNone
    /\ LiveEntry(cache, now, ai.cache_key.val)

----------------------------------------------------------------------------
(* Config.validate() at startup, then get_response running with the       *)
(* configuration that passed it.                                           *)

\* the values the class attributes of Config can take after the import:
\* secrets present or missing, each number inside and outside its range
\* (AI_TEMPERATURE in tenths)
ConfigValues ==
    [TELEGRAM_BOT_TOKEN   : { <<>>, (* "t" *) <<116>> },
     OPENROUTER_API_KEY   : { <<>>, (* "k" *) <<107>> },
     MAX_HISTORY_MESSAGES : { 0, 1, 20 },
     AI_TEMPERATURE       : { -1, 0, 20, 21 },
     AI_MAX_TOKENS        : { 0, 1 },
     AI_RETRY_ATTEMPTS    : { -1, 0, 1, 3 }]

\* Config.validate(): the message of the ValueError raised, None when it returns
validate(cls) ==
    IF cls.TELEGRAM_BOT_TOKEN = <<>>
    THEN PyStr((* "TELEGRAM_BOT_TOKEN environment variable is required" *) <<84, 69, 76, 69, 71, 82, 65, 77, 95, 66, 79, 84, 95, 84, 79, 75, 69, 78, 32, 101, 110, 118, 105, 114, 111, 110, 109, 101, 110, 116, 32, 118, 97, 114, 105, 97, 98, 108, 101, 32, 105, 115, 32, 114, 101, 113, 117, 105, 114, 101, 100>>)
    ELSE IF cls.OPENROUTER_API_KEY = <<>>
    THEN PyStr((* "OPENROUTER_API_KEY environment variable is required" *) <<79, 80, 69, 78, 82, 79, 85, 84, 69, 82, 95, 65, 80, 73, 95, 75, 69, 89, 32, 101, 110, 118, 105, 114, 111, 110, 109, 101, 110, 116, 32, 118, 97, 114, 105, 97, 98, 108, 101, 32, 105, 115, 32, 114, 101, 113, 117, 105, 114, 101, 100>>)
    ELSE IF cls.MAX_HISTORY_MESSAGES < 1
    THEN PyStr((* "MAX_HISTORY_MESSAGES must be at least 1" *) <<77, 65, 88, 95, 72, 73, 83, 84, 79, 82, 89, 95, 77, 69, 83, 83, 65, 71, 69, 83, 32, 109, 117, 115, 116, 32, 98, 101, 32, 97, 116, 32, 108, 101, 97, 115, 116, 32, 49>>)
    ELSE IF cls.AI_TEMPERATURE < 0 \/ cls.AI_TEMPERATURE > 20
    THEN PyStr((* "AI_TEMPERATURE must be between 0 and 2" *) <<65, 73, 95, 84, 69, 77, 80, 69, 82, 65, 84, 85, 82, 69, 32, 109, 117, 115, 116, 32, 98, 101, 32, 98, 101, 116, 119, 101, 101, 110, 32, 48, 32, 97, 110, 100, 32, 50>>)
    ELSE IF cls.AI_MAX_TOKENS < 1
    THEN PyStr((* "AI_MAX_TOKENS must be at least 1" *) <<65, 73, 95, 77, 65, 88, 95, 84, 79, 75, 69, 78, 83, 32, 109, 117, 115, 116, 32, 98, 101, 32, 97, 116, 32, 108, 101, 97, 115, 116, 32, 49>>)
    ELSE PyNone

\* the retry loop of get_response (lines 68-111) for Config.AI_RETRY_ATTEMPTS
\* = retry_attempts, from pass attempt on, outcomes[k] being what the k-th
\* provider call does: the number of provider calls made and the text returned
RECURSIVE RetryLoop(_, _, _)
RetryLoop(retry_attempts, attempt, outcomes) ==
    IF attempt >= retry_attempts
    THEN [calls |-> attempt, response |-> get_fallback_response]
    ELSE IF outcomes[attempt + 1].ok
    THEN [calls    |-> attempt + 1,
          response |-> IF outcomes[attempt + 1].text # <<>>
                       THEN outcomes[attempt + 1].text
                       ELSE EMPTY_CONTENT_REPLY]
    ELSE IF attempt = retry_attempts - 1
    THEN [calls |-> attempt + 1, response |-> get_fallback_response]
    ELSE RetryLoop(retry_attempts, attempt + 1, outcomes)

\* what the provider does on each of its calls
OutcomeRuns == [1..AI_RETRY_ATTEMPTS -> ProviderOutcomes]

\* the process starts: Config.validate() raises (main() logs and the process
\* ends) or returns
Startup(cls) ==
    /\ call.op = "none"
    /\ call' = [op |-> "startup", config |-> cls, ok |-> validate(cls) = PyNone,
                error |-> validate(cls)]
    /\ UNCHANGED <<user_data, appended, cache, now, ai, inbox, sessions>>

\* one get_response call (use_cache false) of the process that started
ConfiguredResponse(outcomes) ==
    /\ call.op = "startup"
    /\ call.ok
    /\ LET r == RetryLoop(call.config.AI_RETRY_ATTEMPTS, 0, outcomes)
       IN  call' = [op |-> "get_response", config |-> call.config, ok |-> TRUE,
                    calls |-> r.calls, msg |-> r.response]
    /\ UNCHANGED <<user_data, appended, cache, now, ai, inbox, sessions>>

NextConfig ==
    \/ \E cls \in ConfigValues : Startup(cls)
    \/ \E outcomes \in OutcomeRuns : ConfiguredResponse(outcomes)

SpecConfig == Init /\ [][NextConfig]_vars

\* C33 (as claimed): a configuration that passes the startup validation has
\* every value in its range, the retry attempts (at least 1) included, and
\* no get_response call returns without having called the provider.
C33_StartupRejectsOutOfRange ==
    /\ (call.op = "startup" /\ call.ok) =>
           /\ call.config.TELEGRAM_BOT_TOKEN # <<>>
           /\ call.config.OPENROUTER_API_KEY # <<>>
           /\ call.config.MAX_HISTORY_MESSAGES >= 1
           /\ call.config.AI_TEMPERATURE \in 0..20
           /\ call.config.AI_MAX_TOKENS >= 1
           /\ call.config.AI_RETRY_ATTEMPTS >= 1
    /\ call.op = "get_response" => call.calls >= 1

\* ---------------------------------------------------------------------------
\* IDLE and the booking fields
\* ---------------------------------------------------------------------------

\* C34 (as claimed): whenever the conversation state is IDLE after an event
\* has been handled, all booking fields are absent.
C34_IdleHasNoBookingFields ==
    (call.op # "none" /\ State = "IDLE") => FieldsAbsent(user_data)

\* ---------------------------------------------------------------------------
\* What a confirmed booking is made of
\* ---------------------------------------------------------------------------

\* the handler that has just run confirmed a booking
JustConfirmed == call.op = "handle_booking_input" /\ "confirmed" \in call.flow

\* C35 (as claimed): when confirm_booking has succeeded, course, time, name
\* and email were each stored after the most recent start_booking, with no
\* /start, /reset, chat menu button or cancel since.
C35_ConfirmedFieldsAreOfThisFlow ==
    JustConfirmed =>
        {"started", "booking_course", "booking_time", "booking_name", "booking_email"}
            \subseteq call.flow

\* ---------------------------------------------------------------------------
\* BOOKING_CONFIRM at the end of an event
\* ---------------------------------------------------------------------------

\* the handler that has just run took the phone step and set_phone succeeded:
\* it sent the confirmation or the text of the failed confirmation
PhoneStepDone ==
    /\ call.op = "handle_booking_input"
    /\ call.ok
    /\ call.sent # <<>>
    /\ \/ StartsWith(call.sent[1], (* "✅ <b>Запись на пробное занятие подтверждена!</b>" *) <<9989, 32, 60, 98, 62, 1047, 1072, 1087, 1080, 1089, 1100, 32, 1085, 1072, 32, 1087, 1088, 1086, 1073, 1085, 1086, 1077, 32, 1079, 1072, 1085, 1103, 1090, 1080, 1077, 32, 1087, 1086, 1076, 1090, 1074, 1077, 1088, 1078, 1076, 1077, 1085, 1072, 33, 60, 47, 98, 62>>)
       \/ call.sent[1] = (* "❌ Ошибка при обработке бронирования. Попробуйте снова /book" *) <<10060, 32, 1054, 1096, 1080, 1073, 1082, 1072, 32, 1087, 1088, 1080, 32, 1086, 1073, 1088, 1072, 1073, 1086, 1090, 1082, 1077, 32, 1073, 1088, 1086, 1085, 1080, 1088, 1086, 1074, 1072, 1085, 1080, 1103, 46, 32, 1055, 1086, 1087, 1088, 1086, 1073, 1091, 1081, 1090, 1077, 32, 1089, 1085, 1086, 1074, 1072, 32, 47, 98, 111, 111, 107>>

\* C36 (as claimed): after every event handled the conversation state is
\* not BOOKING_CONFIRM; the successful phone step confirms the booking in
\* the same turn and leaves IDLE with the booking fields cleared.
C36_NeverLeftInBookingConfirm ==
    /\ call.op # "none" => State # "BOOKING_CONFIRM"
    /\ PhoneStepDone => State = "IDLE" /\ FieldsAbsent(user_data)

\* ---------------------------------------------------------------------------
\* Routing of text messages
\* ---------------------------------------------------------------------------

\* the handlers a text message can reach
TextHandlers == {"handle_booking_input", "handle_message", "message_router"}

\* the session holds the same value, or no value, under key
SameUnder(key) ==
    /\ (key \in DOMAIN user_data') = (key \in DOMAIN user_data)
    /\ key \in DOMAIN user_data => user_data'[key] = user_data[key]

\* C37: a text message received in one of the six booking states is handled
\* by the booking handler alone: no answer is asked of the LLM and the
\* history is as it was; a text message received in any other state leaves
\* the conversation state and the five booking fields as they were.
C37_RoutingKeepsHalvesApart ==
    [][call'.op \in TextHandlers =>
          IF StepIndex(State) > 0
          THEN /\ call'.op = "handle_booking_input"
               /\ appended' = appended
               /\ SameUnder("history")
          ELSE /\ call'.op # "handle_booking_input"
               /\ SameUnder("conversation_state")
               /\ get_state(user_data') = State
               /\ \A i \in 1..Len(booking_keys) : SameUnder(booking_keys[i])]_vars

\* a text sent while the form waits for a button (BOOKING_COURSE) went to
\* the booking handler: the history of the earlier chat is still there
C37_Witness ==
    /\ call.op = "handle_booking_input"
    /\ State = "BOOKING_COURSE"
    /\ History # <<>>
    /\ appended = History

\* ---------------------------------------------------------------------------
\* Order of the appends in an AI-chat turn
\* ---------------------------------------------------------------------------

\* the history is user/assistant pairs: a user message in every odd place,
\* an assistant message in every even place, as many of one as of the other
Paired(history) ==
    /\ Len(history) % 2 = 0
    /\ \A i \in 1..Len(history) :
           history[i].role = (IF i % 2 = 1 THEN "user" ELSE "assistant")

\* C38: in every AI-chat turn the history given to get_response, and with it
\* every request sent to the provider, ends with the user's message of this
\* turn; the reply is appended when get_response has returned; and after
\* every completed turn the history of every user is user/assistant pairs of
\* at most 2*N messages, the last one being the reply of the user's last turn.
C38_TurnAppendsUserThenReply ==
    [][/\ (call'.op = "dispatch" /\ Head(inbox).text # <<>>) =>
              LET current == [role |-> "user", content |-> Head(inbox).text]
                  stored  == get_history(sessions'[Head(inbox).user]).ret
              IN  /\ ai'.messages # <<>>
                  /\ ai'.messages[Len(ai'.messages)] = current
                  /\ stored = ai'.messages
                  /\ ai'.pc = "attempt" =>
                         ai'.api_messages[Len(ai'.api_messages)] = current
       /\ call'.op = "attempt" =>
              LET sent == ai'.trace[Len(ai'.trace)].request
              IN  /\ sent[Len(sent)] = ai.messages[Len(ai.messages)]
                  /\ sent[Len(sent)].role = "user"
                  /\ sessions' = sessions
       /\ call'.op = "reply" =>
              LET stored == get_history(sessions'[ai.user]).ret
              IN  /\ stored # <<>>
                  /\ stored[Len(stored)] =
                         [role |-> "assistant", content |-> ai.response]
                  /\ Len(stored) >= 2 =>
                         stored[Len(stored) - 1] = ai.messages[Len(ai.messages)]
       /\ ai'.pc = "idle" =>
              \A u \in Users :
                  /\ Paired(get_history(sessions'[u]).ret)
                  /\ Len(get_history(sessions'[u]).ret) <= 2 * MAX_HISTORY_MESSAGES]_vars

\* the first user's second turn has been completed: the history was
\* trimmed twice in it and holds the last question and its reply
C38_Witness ==
    /\ call.op = "reply"
    /\ ai.served = MaxUpdates
    /\ get_history(sessions[2]).ret = <<>>
    /\ Len(get_history(sessions[1]).ret) = 2 * MAX_HISTORY_MESSAGES
    /\ Paired(get_history(sessions[1]).ret)

----------------------------------------------------------------------------
(* get_response building its request over knowledge directories in which   *)
(* files are missing, unreadable, blank or present.                         *)

\* what a knowledge file can be: missing, unreadable, blank, a text
FileStates == { PyNone, Unreadable, PyStr((* " \n" *) <<32, 10>>), PyStr((* "K1\n" *) <<75, 49, 10>>) }

\* the knowledge directories: company.txt, pricing.txt and the old
\* knowledge_base.txt in every state, the other files missing
KnowledgeDirs ==
    { [company      |-> c,
       courses      |-> PyNone,
       teachers     |-> PyNone,
       testimonials |-> PyNone,
       pricing      |-> p,
       faq          |-> PyNone,
       policies     |-> PyNone,
       knowledge_base |-> old] : c \in FileStates, p \in FileStates, old \in FileStates }

\* the service is deployed over one knowledge directory
Deploy(dir) ==
    /\ call.op = "none"
    /\ call' = [op |-> "deploy", dir |-> dir]
    /\ UNCHANGED <<user_data, appended, cache, now, ai, inbox, sessions>>

\* get_response (use_cache false) up to its first provider call (lines
\* 62-66): the system prompt, built over the directory, and the request
BuildRequest(messages, context) ==
    /\ call.op = "deploy"
    /\ LET system_prompt ==
               BASE_PROMPT \o ContextPrompt(context)
                   \o (* "=== БАЗА ЗНАНИЙ ===\n" *) <<61, 61, 61, 32, 1041, 1040, 1047, 1040, 32, 1047, 1053, 1040, 1053, 1048, 1049, 32, 61, 61, 61, 10>> \o load_knowledge_base(call.dir)
                   \o (* "\n=== КОНЕЦ БАЗЫ ЗНАНИЙ ===" *) <<10, 61, 61, 61, 32, 1050, 1054, 1053, 1045, 1062, 32, 1041, 1040, 1047, 1067, 32, 1047, 1053, 1040, 1053, 1048, 1049, 32, 61, 61, 61>>
       IN  call' = [op |-> "build_request", dir |-> call.dir, context |-> context,
                    arg |-> messages,
                    request |-> PrepareMessages(messages, system_prompt).api_messages]
    /\ UNCHANGED <<user_data, appended, cache, now, ai, inbox, sessions>>

\* the first provider call is made with the request built (lines 70-78)
CallProvider(outcome) ==
    /\ call.op = "build_request"
    /\ call' = [op |-> "create", dir |-> call.dir, context |-> call.context,
                arg |-> call.arg, request |-> call.request, ok |-> outcome.ok]
    /\ UNCHANGED <<user_data, appended, cache, now, ai, inbox, sessions>>

NextKnowledge ==
    \/ \E dir \in KnowledgeDirs : Deploy(dir)
    \/ \E messages \in {<<Msg("user", (* "Hi" *) <<72, 105>>)>>} : \E context \in Contexts :
           BuildRequest(messages, context)
    \/ \E outcome \in ProviderOutcomes : CallProvider(outcome)

SpecKnowledge == Init /\ [][NextKnowledge]_vars

\* the file gives no text: it is missing, unreadable or blank
GivesNothing(file) == file \in {PyNone, Unreadable} \/ Strip(file.val) = <<>>

\* the knowledge text inside the system prompt of the request
KnowledgeIn(request, context) ==
    LET content == request[1].content
        opening == BASE_PROMPT \o ContextPrompt(context) \o (* "=== БАЗА ЗНАНИЙ ===\n" *) <<61, 61, 61, 32, 1041, 1040, 1047, 1040, 32, 1047, 1053, 1040, 1053, 1048, 1049, 32, 61, 61, 61, 10>>
        closing == (* "\n=== КОНЕЦ БАЗЫ ЗНАНИЙ ===" *) <<10, 61, 61, 61, 32, 1050, 1054, 1053, 1045, 1062, 32, 1041, 1040, 1047, 1067, 32, 1047, 1053, 1040, 1053, 1048, 1049, 32, 61, 61, 61>>
    IN  SubSeq(content, Len(opening) + 1, Len(content) - Len(closing))

\* C40: whatever knowledge files are missing or unreadable, get_response
\* builds its request, a system message followed by the history, and the
\* provider is called with it; when no file gives a text and the old
\* knowledge_base.txt is missing or unreadable, the knowledge text of the
\* system message is the fixed placeholder; a file that can be read is never
\* replaced by it.
C40_KnowledgeFailureIsNotFatal ==
    /\ call.op \in {"build_request", "create"} =>
           LET files     == {call.dir[knowledge_files[i]] : i \in 1..Len(knowledge_files)}
               knowledge == KnowledgeIn(call.request, call.context)
           IN  /\ Len(call.request) = Len(call.arg) + 1
               /\ call.request[1].role = "system"
               /\ StartsWith(call.request[1].content, BASE_PROMPT)
               /\ ((\A f \in files : GivesNothing(f))
                     /\ call.dir.knowledge_base \in {PyNone, Unreadable})
                  <=> knowledge = (* "База знаний не загружена." *) <<1041, 1072, 1079, 1072, 32, 1079, 1085, 1072, 1085, 1080, 1081, 32, 1085, 1077, 32, 1079, 1072, 1075, 1088, 1091, 1078, 1077, 1085, 1072, 46>>
               /\ (\E f \in files : ~GivesNothing(f)) => Contains(knowledge, (* "K1" *) <<75, 49>>)
    /\ call.op = "build_request" => ENABLED CallProvider([ok |-> TRUE, text |-> (* "A1" *) <<65, 49>>])

\* the provider has been called with the placeholder as the knowledge text:
\* company.txt cannot be read, pricing.txt is blank, the old file is missing
C40_Witness ==
    /\ call.op = "create"
    /\ call.dir.company = Unreadable
    /\ call.dir.pricing = PyStr((* " \n" *) <<32, 10>>)
    /\ call.dir.knowledge_base = PyNone
    /\ KnowledgeIn(call.request, call.context) = (* "База знаний не загружена." *) <<1041, 1072, 1079, 1072, 32, 1079, 1085, 1072, 1085, 1080, 1081, 32, 1085, 1077, 32, 1079, 1072, 1075, 1088, 1091, 1078, 1077, 1085, 1072, 46>>

\* ---------------------------------------------------------------------------
\* /reset
\* ---------------------------------------------------------------------------

\* C39: the handler of /reset, run on any session (any conversation state,
\* any history, any booking fields), leaves the history empty, the five
\* booking fields absent and the conversation state IDLE, and answers.
C39_ResetClearsSession ==
    [][call'.op = "reset_command" =>
          /\ get_history(user_data').ret = <<>>
          /\ FieldsAbsent(user_data')
          /\ \A i \in 1..Len(booking_keys) : ~Populated(user_data', booking_keys[i])
          /\ get_state(user_data') = "IDLE"
          /\ "conversation_state" \in DOMAIN user_data'
          /\ user_data'["conversation_state"] = ConversationState.IDLE
          /\ call'.sent # <<>>]_vars

\* /reset has just been handled: the session holds an empty history and the
\* state IDLE and nothing else
C39_Witness ==
    /\ call.op = "reset_command"
    /\ DOMAIN user_data = {"history", "conversation_state"}
    /\ History = <<>>
    /\ State = "IDLE"
====
